---- MODULE Spec2Model ----
(***************************************************************************)
(* A model of kernel/power/swsusp.c: the software-suspend engine that      *)
(* snapshots physical memory into a page directory (pagedir), writes the   *)
(* image to swap, and reads it back on the next boot.                      *)
(*                                                                         *)
(* Memory is an array of page frames; an address is a frame number plus    *)
(* one page (so that address 0 is NULL).  A page is a record whose kind    *)
(* says which member of `union diskpage' was last stored in it.  The page  *)
(* allocator and the swap-slot allocator are deterministic given their     *)
(* free lists; the order of those lists is chosen in Init (and at boot).   *)
(***************************************************************************)
EXTENDS Integers, Sequences, FiniteSets, TLC

(***************************************************************************)
(* Bounds of the model.                                                    *)
(***************************************************************************)
\* num_physpages == max_pfn: the number of page frames.
NumFrames == 12

\* PAGE_SIZE / sizeof(struct pbe): pbes held by one directory page (scaled).
PbesPerPage == 2

\* Offsets 1..NumSlots of a swap device hold data; offset 0 is its header.
NumSlots == 6

\* swsusp.c:99 sets 512; scaled, and kept above the largest directory
\* (pages) + 1 header the layouts below can need.
PAGES_FOR_IO == 3

(***************************************************************************)
(* Program constants.                                                      *)
(***************************************************************************)
MAX_SWAPFILES == 2
SWAPFILE_UNUSED == 0
SWAPFILE_SUSPEND == 1
SWAPFILE_IGNORED == 2
NO_ROOT_SWAP == 65535
SWP_ACTIVE == 3
\* sizeof(swp_entry_t) == sizeof(long) on the 32-bit build
SwpEntryBytes == 4
MagicLen == 10

Frames == 0 .. (NumFrames - 1)
SwapTypes == 0 .. (MAX_SWAPFILES - 1)
Offsets == 0 .. NumSlots
NoDev == -1

\* ADDRESS(pfn): the kernel virtual address of a frame, in pages.
ADDRESS(pfn) == pfn + 1
\* virt_to_page / the frame of an address
PfnOf(addr) == addr - 1

Pow2(k) == 2 ^ k

Range(s) == {s[x] : x \in 1 .. Len(s)}

Min(S) == CHOOSE x \in S : \A y \in S : x <= y

(***************************************************************************)
(* Swap entries: swp_entry(type, offset) packs both in one word; the word  *)
(* 0 (type 0, offset 0) is "no entry".                                     *)
(***************************************************************************)
SwpRange == NumSlots + 1
swp_entry(type, offset) == type * SwpRange + offset
swp_type(entry) == entry \div SwpRange
swp_offset(entry) == entry % SwpRange

(***************************************************************************)
(* Pages.                                                                  *)
(***************************************************************************)
ZeroPbe == [address |-> 0, orig_address |-> 0, swap_address |-> 0, dummy |-> 0]
ZeroPbes == [j \in 1 .. PbesPerPage |-> ZeroPbe]
ZeroMagic == [j \in 1 .. MagicLen |-> 0]

\* A data page holding content token t; the zeroed page has token 0.
DataPage(t) == [kind |-> "data", tok |-> t]
ZeroPage == DataPage(0)
JunkTok == -1
\* The content frame f holds when the machine is running.
Content0(f) == 100 + f

DirPage(pbes) == [kind |-> "dir", pbes |-> pbes]
HdrPage(sh, next) == [kind |-> "hdr", sh |-> sh, next |-> next]
SwhPage(magic) == [kind |-> "swh", magic |-> magic]

\* The four signatures, as bytes.
SWAP_SPACE == <<83, 87, 65, 80, 45, 83, 80, 65, 67, 69>>
SWAPSPACE2 == <<83, 87, 65, 80, 83, 80, 65, 67, 69, 50>>
S1SUSP == <<83, 49, 83, 85, 83, 80, 46, 46, 46, 46>>
S2SUSP == <<83, 50, 83, 85, 83, 80, 46, 46, 46, 46>>

\* memcmp(a, magic, n) == 0
MemEq(a, magic, n) == \A j \in 1 .. n : a[j] = magic[j]

\* A swp_entry_t as SwpEntryBytes little-endian bytes, and back.
EntryBytes(v) == [j \in 1 .. SwpEntryBytes |-> (v \div (256 ^ (j - 1))) % 256]
RECURSIVE BytesEntry(_, _)
BytesEntry(b, j) == IF j > Len(b) THEN 0 ELSE b[j] * (256 ^ (j - 1)) + BytesEntry(b, j + 1)

\* The views of a page through union diskpage.  A page last stored through
\* another member reads as zeroes, except for the trailing bytes (link.next).
AsPbes(page) == IF page.kind = "dir" THEN page.pbes ELSE ZeroPbes
AsMagic(page) == IF page.kind = "swh" THEN page.magic ELSE ZeroMagic
AsTok(page) == IF page.kind = "data" THEN page.tok ELSE JunkTok

\* cur->link.next: the last sizeof(swp_entry_t) bytes of the page.  In a
\* directory page they are the dummy field of its last pbe; in a swap header
\* they are the last bytes of the magic field.
LinkNext(page) ==
  CASE page.kind = "dir" -> page.pbes[PbesPerPage].dummy
    [] page.kind = "hdr" -> page.next
    [] page.kind = "swh" ->
         BytesEntry([j \in 1 .. SwpEntryBytes |-> page.magic[MagicLen - SwpEntryBytes + j]], 1)
    [] OTHER -> 0

\* A page that is never linked to the one written before it.
SetLinkNext_none(page, v) == page

\* A link that is two words wide: in a directory page it also covers the
\* swap_address of the last pbe.
SetLinkNext_wide(page, v) ==
  CASE page.kind = "dir" ->
         [page EXCEPT !.pbes[PbesPerPage].dummy = v, !.pbes[PbesPerPage].swap_address = v]
    [] page.kind = "hdr" -> [page EXCEPT !.next = v]
    [] page.kind = "swh" ->
         [page EXCEPT !.magic = [j \in 1 .. MagicLen |->
             IF j > MagicLen - SwpEntryBytes
               THEN EntryBytes(v)[j - (MagicLen - SwpEntryBytes)]
               ELSE page.magic[j]]]
    [] OTHER -> IF v = 0 /\ page.tok = 0 THEN page ELSE DataPage(JunkTok)

\* cur->link.next = v
SetLinkNext(page, v) ==
  CASE page.kind = "dir" -> [page EXCEPT !.pbes[PbesPerPage].dummy = v]
    [] page.kind = "hdr" -> [page EXCEPT !.next = v]
    [] page.kind = "swh" ->
         [page EXCEPT !.magic = [j \in 1 .. MagicLen |->
             IF j > MagicLen - SwpEntryBytes
               THEN EntryBytes(v)[j - (MagicLen - SwpEntryBytes)]
               ELSE page.magic[j]]]
    [] OTHER -> IF v = 0 /\ page.tok = 0 THEN page ELSE DataPage(JunkTok)

\* memcpy(cur->swh.magic.magic, sig, 10)
SetMagic(page, sig) == SwhPage(sig)

(***************************************************************************)
(* The directory: SUSPEND_PD_PAGES and get_bitmask_order.                  *)
(***************************************************************************)
\* Pages needed to hold n pbes.
SUSPEND_PD_PAGES(n) == (n + PbesPerPage - 1) \div PbesPerPage

\* The smallest k with 2^k > count.
get_bitmask_order_above(count) == Min({k \in 0 .. NumFrames : Pow2(k) > count})

\* The smallest k with 2^k >= count.
get_bitmask_order(count) == Min({k \in 0 .. NumFrames : Pow2(k) >= count})

(***************************************************************************)
(* Memory layouts at suspend time.  Kinds of frame: "R" reserved (kernel), *)
(* "U" in use, "X" in use and flagged PageNosave by its owner, "F" free.   *)
(* Frames past the head of the pattern are all of kind pad.  Reserved      *)
(* frames in [nsb, nse) are the __nosave section.                          *)
(***************************************************************************)
Layouts ==
  { [head |-> <<"R">>, pad |-> "F", nsb |-> 0, nse |-> 1],
    [head |-> <<"R", "R">>, pad |-> "F", nsb |-> 0, nse |-> 1],
    [head |-> <<"R", "U", "F", "F", "X", "U">>, pad |-> "F", nsb |-> 0, nse |-> 1],
    [head |-> <<"R", "R", "F", "U", "X", "F", "F", "U">>, pad |-> "F", nsb |-> 1, nse |-> 2],
    [head |-> <<"R", "F", "F", "U", "F", "U", "F", "U">>, pad |-> "F", nsb |-> 0, nse |-> 1],
    [head |-> <<"R", "U", "U", "U", "U", "X">>, pad |-> "F", nsb |-> 0, nse |-> 1],
    [head |-> <<"R", "U", "F">>, pad |-> "U", nsb |-> 0, nse |-> 1] }

KindAt(L, f) == IF f < Len(L.head) THEN L.head[f + 1] ELSE L.pad

\* The frames of a set in ascending / descending order.
RECURSIVE Ascending(_)
Ascending(S) == IF S = {} THEN <<>> ELSE <<Min(S)>> \o Ascending(S \ {Min(S)})
Reverse(s) == [x \in 1 .. Len(s) |-> s[Len(s) + 1 - x]]
Ordered(S, order) == IF order = "asc" THEN Ascending(S) ELSE Reverse(Ascending(S))

(***************************************************************************)
(* State.                                                                  *)
(***************************************************************************)
VARIABLES
  pc,                   \* where the machine is
  why,                  \* the message of a panic, or the reason of an error
  error,                \* the value returned by the function that ended
  cfg,                  \* the configuration chosen in Init (never changes)
  irq,                  \* TRUE when interrupts are enabled
  \* the page allocator and physical memory
  PageReserved,         \* frames with PG_reserved
  PageNosave,           \* frames with PG_nosave
  free_list,            \* the free frames, in the order they are handed out
  memory,               \* frame -> page
  \* swap
  swap_info,            \* type -> flags
  swap_free,            \* type -> free offsets
  swap_prio,            \* the types in the order get_swap_page tries them
  disk,                 \* type -> offset -> page
  resume_file,          \* the device named by resume=, or NoDev
  \* swsusp.c's variables
  nr_copy_pages,
  pagedir_nosave,
  pagedir_save,
  pagedir_order,
  nr_copy_pages_check,
  pagedir_order_check,
  swapfile_used,
  root_swap,
  \* locals of the running function
  i,
  prev,
  buffer,
  cur,
  next,
  eaten_memory,
  snap                  \* the kernel's variables as copied by the copying pass

memvars == <<PageReserved, PageNosave, free_list, memory>>
swapvars == <<swap_info, swap_free, swap_prio, disk, resume_file>>
kvars == <<nr_copy_pages, pagedir_nosave, pagedir_save, pagedir_order,
           nr_copy_pages_check, pagedir_order_check, swapfile_used, root_swap>>
locals == <<i, prev, buffer, cur, next, eaten_memory>>
vars == <<pc, why, error, cfg, irq, memvars, swapvars, kvars, locals, snap>>

(***************************************************************************)
(* The page allocator (mm/page_alloc.c): a block of 2^order frames,        *)
(* aligned, all free; the first such block in free-list order.             *)
(***************************************************************************)
Block(base, order) == base .. (base + Pow2(order) - 1)

BlockFree(fl, base, order) ==
  /\ base % Pow2(order) = 0
  /\ Block(base, order) \subseteq Range(fl)

CanAlloc(fl, order) == \E x \in 1 .. Len(fl) : BlockFree(fl, fl[x], order)

\* The frame __get_free_pages(order) returns.
AllocBase(fl, order) ==
  fl[Min({x \in 1 .. Len(fl) : BlockFree(fl, fl[x], order)})]

Without(fl, S) == SelectSeq(fl, LAMBDA f : f \notin S)

\* free_pages(addr, order): the block goes back to the head of the list.
FreeBlock(fl, base, order) == Ascending(Block(base, order)) \o fl

nr_free_pages == Len(free_list)

(***************************************************************************)
(* The swap-slot allocator (mm/swapfile.c).                                *)
(***************************************************************************)
WriteOk(flags) == (flags \div 2) % 2 = 1

\* The devices get_swap_page can take a slot from, in priority order.
UsableTypes(info, fr, prio) ==
  SelectSeq(prio, LAMBDA t : WriteOk(info[t]) /\ fr[t] # {})

\* get_swap_page(): the entry, or 0 when no slot is left.
get_swap_page(info, fr, prio) ==
  LET u == UsableTypes(info, fr, prio) IN
  IF u = <<>> THEN 0 ELSE swp_entry(u[1], Min(fr[u[1]]))

TakeSlot(fr, entry) ==
  [fr EXCEPT ![swp_type(entry)] = @ \ {swp_offset(entry)}]

\* si_swapinfo(): the free slots of every active device.
RECURSIVE SumFree(_, _, _)
SumFree(info, fr, t) ==
  IF t >= MAX_SWAPFILES THEN 0
  ELSE (IF info[t] # 0 THEN Cardinality(fr[t]) ELSE 0) + SumFree(info, fr, t + 1)
freeswap == SumFree(swap_info, swap_free, 0)

\* rw_swap_page_sync(WRITE, entry, page)
WriteSlot(d, entry, page) ==
  [d EXCEPT ![swp_type(entry)][swp_offset(entry)] = page]

(***************************************************************************)
(* The directory in memory.                                                *)
(***************************************************************************)
\* (pagedir + k): the frame and the index in that frame's page.
PbeFrame(pagedir, k) == PfnOf(pagedir) + (k \div PbesPerPage)
PbeIndex(k) == (k % PbesPerPage) + 1
GetPbe(mem, pagedir, k) == AsPbes(mem[PbeFrame(pagedir, k)])[PbeIndex(k)]
PutPbe(mem, pagedir, k, pbe) ==
  [mem EXCEPT ![PbeFrame(pagedir, k)] =
     DirPage([AsPbes(@) EXCEPT ![PbeIndex(k)] = pbe])]

(***************************************************************************)
(* fill_suspend_header                                                     *)
(***************************************************************************)
\* The running system, as the header describes it.
LINUX_VERSION_CODE == 132608
PAGE_SIZE == 4096
System ==
  [version_code |-> LINUX_VERSION_CODE,
   num_physpages |-> NumFrames,
   machine |-> <<105, 54, 56, 54>>,
   \* "#1 SMP Mon Dec 1 2003": longer than the header's field of 20 bytes
   version |-> <<35, 49, 32, 83, 77, 80, 32, 77, 111, 110, 32, 68, 101, 99, 32, 49, 32,
                 50, 48, 48, 51>>,
   num_cpus |-> 1,
   page_size |-> PAGE_SIZE]

\* The byte of a C string at position j; 0 past its end.
CharAt(str, j) == IF j <= Len(str) THEN str[j] ELSE 0

\* strncpy(dst, src, n) into a zeroed field of n bytes
strncpy(src, n) == [j \in 1 .. n |-> CharAt(src, j)]

\* strncmp(a, b, n) == 0
RECURSIVE StrnEqFrom(_, _, _, _)
StrnEqFrom(a, b, n, j) ==
  IF j > n THEN TRUE
  ELSE IF CharAt(a, j) # CharAt(b, j) THEN FALSE
  ELSE IF CharAt(a, j) = 0 THEN TRUE
  ELSE StrnEqFrom(a, b, n, j + 1)
strncmp0(a, b, n) == StrnEqFrom(a, b, n, 1)

\* A header that counts one pbe too many.
fill_suspend_header_onemore(sys, pagedir, n) ==
  [version_code |-> sys.version_code,
   num_physpages |-> sys.num_physpages,
   machine |-> strncpy(sys.machine, 8),
   version |-> strncpy(sys.version, 20),
   num_cpus |-> sys.num_cpus,
   page_size |-> sys.page_size,
   suspend_pagedir |-> pagedir,
   num_pbes |-> n + 1]

\* A header that does not record where the directory was.
fill_suspend_header_nopagedir(sys, pagedir, n) ==
  [version_code |-> sys.version_code,
   num_physpages |-> sys.num_physpages,
   machine |-> strncpy(sys.machine, 8),
   version |-> strncpy(sys.version, 20),
   num_cpus |-> sys.num_cpus,
   page_size |-> sys.page_size,
   suspend_pagedir |-> 0,
   num_pbes |-> n]

fill_suspend_header(sys, pagedir, n) ==
  [version_code |-> sys.version_code,
   num_physpages |-> sys.num_physpages,
   machine |-> strncpy(sys.machine, 8),
   version |-> strncpy(sys.version, 20),
   num_cpus |-> sys.num_cpus,
   page_size |-> sys.page_size,
   suspend_pagedir |-> pagedir,
   num_pbes |-> n]

ZeroHdr ==
  [version_code |-> 0, num_physpages |-> 0,
   machine |-> [j \in 1 .. 8 |-> 0],
   version |-> [j \in 1 .. 20 |-> 0],
   num_cpus |-> 0, page_size |-> 0, suspend_pagedir |-> 0, num_pbes |-> 0]

AsHdr(page) == IF page.kind = "hdr" THEN page.sh ELSE ZeroHdr

(***************************************************************************)
(* read_swapfiles                                                          *)
(***************************************************************************)
\* The loop over i, carrying root_swap; len is strlen(resume_file).
RECURSIVE ReadSwapfilesFrom(_, _, _, _, _)
ReadSwapfilesFrom(t, info, len, used, root) ==
  IF t >= MAX_SWAPFILES THEN [used |-> used, root |-> root]
  ELSE IF info[t] = 0
    THEN ReadSwapfilesFrom(t + 1, info, len, [used EXCEPT ![t] = SWAPFILE_UNUSED], root)
  ELSE IF len = 0
    THEN IF root = NO_ROOT_SWAP
           THEN ReadSwapfilesFrom(t + 1, info, len, [used EXCEPT ![t] = SWAPFILE_SUSPEND], t)
           ELSE ReadSwapfilesFrom(t + 1, info, len, [used EXCEPT ![t] = SWAPFILE_IGNORED], root)
  \* if (1): the comparison with resume_device is commented out
  ELSE ReadSwapfilesFrom(t + 1, info, len, [used EXCEPT ![t] = SWAPFILE_SUSPEND], t)

\* flags ^= 0xFF
Xor255(flags) == 255 - flags

\* A lock_swapdevices that clears the flags of the ignored devices.
lock_swapdevices_clear(info, used) ==
  [t \in SwapTypes |-> IF used[t] = SWAPFILE_IGNORED THEN 0 ELSE info[t]]

\* lock_swapdevices: flags ^= 0xFF on every ignored device
lock_swapdevices(info, used) ==
  [t \in SwapTypes |-> IF used[t] = SWAPFILE_IGNORED THEN Xor255(info[t]) ELSE info[t]]

(***************************************************************************)
(* count_and_copy_data_pages                                               *)
(***************************************************************************)
\* is_head_of_free_region(page): the length of the free region that starts
\* at pfn, 0 when pfn is not free.
RECURSIVE is_head_of_free_region(_, _)
is_head_of_free_region(fs, pfn) ==
  IF pfn < NumFrames /\ pfn \in fs THEN 1 + is_head_of_free_region(fs, pfn + 1) ELSE 0

InNosaveSection(pfn) ==
  /\ ADDRESS(pfn) >= ADDRESS(cfg.layout.nsb)
  /\ ADDRESS(pfn) < ADDRESS(cfg.layout.nse)

\* A walk that does not look at PG_nosave.
RECURSIVE CountedFrom_noflag(_, _, _, _)
CountedFrom_noflag(pfn, resv, nosave, fs) ==
  IF pfn >= NumFrames THEN <<>>
  ELSE IF pfn \notin resv
    THEN IF is_head_of_free_region(fs, pfn) # 0
           THEN CountedFrom_noflag(pfn + (is_head_of_free_region(fs, pfn) - 1) + 1, resv, nosave, fs)
         ELSE <<pfn>> \o CountedFrom_noflag(pfn + 1, resv, nosave, fs)
  ELSE IF InNosaveSection(pfn) THEN CountedFrom_noflag(pfn + 1, resv, nosave, fs)
  ELSE <<pfn>> \o CountedFrom_noflag(pfn + 1, resv, nosave, fs)

\* The frames the walk counts, in the order it meets them, from pfn on.
RECURSIVE CountedFrom(_, _, _, _)
CountedFrom(pfn, resv, nosave, fs) ==
  IF pfn >= NumFrames THEN <<>>
  ELSE IF pfn \notin resv
    THEN IF pfn \in nosave THEN CountedFrom(pfn + 1, resv, nosave, fs)
         ELSE IF is_head_of_free_region(fs, pfn) # 0
           THEN CountedFrom(pfn + (is_head_of_free_region(fs, pfn) - 1) + 1, resv, nosave, fs)
         ELSE <<pfn>> \o CountedFrom(pfn + 1, resv, nosave, fs)
  ELSE IF InNosaveSection(pfn) THEN CountedFrom(pfn + 1, resv, nosave, fs)
  ELSE <<pfn>> \o CountedFrom(pfn + 1, resv, nosave, fs)

Counted == CountedFrom(0, PageReserved, PageNosave, Range(free_list))

\* BUG_ON(PageNosave(page)) on a reserved page
CountBug == PageReserved \cap PageNosave # {}

\* A pass that never advances pagedir_p.
NextPbe_stuck(k) == k

\* pagedir_p++ after a frame was recorded
NextPbe(k) == k + 1

\* A pass that records the frames and copies nothing.
RECURSIVE CopyFrom_nocopy(_, _, _, _, _)
CopyFrom_nocopy(mem, pagedir, frames, x, k) ==
  IF x > Len(frames) THEN mem
  ELSE LET p == GetPbe(mem, pagedir, k)
           m1 == PutPbe(mem, pagedir, k, [p EXCEPT !.orig_address = ADDRESS(frames[x])])
       IN CopyFrom_nocopy(m1, pagedir, frames, x + 1, NextPbe(k))

\* The copying pass over the counted frames: the k-th pbe gets the address
\* of the frame and the frame's page is copied to the pbe's buffer.
RECURSIVE CopyFrom(_, _, _, _, _)
CopyFrom(mem, pagedir, frames, x, k) ==
  IF x > Len(frames) THEN mem
  ELSE LET p == GetPbe(mem, pagedir, k)
           m1 == PutPbe(mem, pagedir, k, [p EXCEPT !.orig_address = ADDRESS(frames[x])])
           m2 == [m1 EXCEPT ![PfnOf(p.address)] = m1[frames[x]]]
       IN CopyFrom(m2, pagedir, frames, x + 1, NextPbe(k))

(***************************************************************************)
(* free_suspend_pagedir                                                    *)
(***************************************************************************)
\* A loop that does not leave the pages of the directory to free_pages.
FreedSingly_all(nosave, this_pagedir, order) == nosave

\* The frames the loop frees one by one: every frame that had PG_nosave and
\* lies outside the directory, in ascending order.
FreedSingly(nosave, this_pagedir, order) ==
  {f \in nosave : ~(ADDRESS(f) >= this_pagedir /\ ADDRESS(f) < this_pagedir + Pow2(order))}

RECURSIVE FreeEach(_, _)
FreeEach(fl, frames) ==
  IF frames = <<>> THEN fl ELSE FreeEach(<<frames[1]>> \o fl, Tail(frames))

free_suspend_pagedir_list(fl, nosave, this_pagedir, order) ==
  FreeBlock(FreeEach(fl, Ascending(FreedSingly(nosave, this_pagedir, order))),
            PfnOf(this_pagedir), order)

(***************************************************************************)
(* Init                                                                    *)
(***************************************************************************)
FreeOpts == {2, NumSlots - 1, NumSlots}

\* The orders get_swap_page may try the devices in.
Priorities == {Ascending(SwapTypes), Reverse(Ascending(SwapTypes))}

DevConfigs ==
  { c \in [active : SUBSET SwapTypes,
           nfree : [SwapTypes -> FreeOpts \cup {0}],
           prio : Priorities,
           resume : SwapTypes \cup {NoDev}] :
      /\ \A t \in SwapTypes : (t \in c.active) <=> (c.nfree[t] # 0)
      /\ (Cardinality(c.active) < 2) => c.prio = Ascending(SwapTypes) }

\* The free offsets of a device with n free slots: the highest n.
InitFree(n) == {o \in 1 .. NumSlots : o > NumSlots - n}

\* The header of a swap device: version 2 on type 0, version 1 on the others.
InitMagic(t) == IF t = 0 THEN SWAPSPACE2 ELSE SWAP_SPACE

\* The state of memory and swap before the suspend, for a configuration.
Reserved0(c) == {f \in Frames : KindAt(c.layout, f) = "R"}
Nosave0(c) == {f \in Frames : KindAt(c.layout, f) = "X"}
Free0(c) == Ordered({f \in Frames : KindAt(c.layout, f) = "F"}, c.order)
Memory0 == [f \in Frames |-> DataPage(Content0(f))]
SwapInfo0(c) == [t \in SwapTypes |-> IF t \in c.dev.active THEN SWP_ACTIVE ELSE 0]
SwapFree0(c) == [t \in SwapTypes |-> InitFree(c.dev.nfree[t])]
Disk0(c) ==
  [t \in SwapTypes |-> [o \in Offsets |->
     IF o = 0 /\ t \in c.dev.active THEN SwhPage(InitMagic(t)) ELSE DataPage(JunkTok)]]

NoSnap == [taken |-> FALSE]

\* Everything but cfg, pc and the pages under test, for a configuration.
InitOf(c) ==
  /\ why = ""
  /\ error = 0
  /\ irq = FALSE
  /\ PageReserved = Reserved0(c)
  /\ PageNosave = Nosave0(c)
  /\ free_list = Free0(c)
  /\ swap_info = SwapInfo0(c)
  /\ swap_free = SwapFree0(c)
  /\ swap_prio = c.dev.prio
  /\ disk = Disk0(c)
  /\ resume_file = c.dev.resume
  /\ nr_copy_pages = 0
  /\ pagedir_nosave = 0
  /\ pagedir_save = 0
  /\ pagedir_order = 0
  /\ nr_copy_pages_check = 0
  /\ pagedir_order_check = 0
  /\ swapfile_used = [t \in SwapTypes |-> SWAPFILE_UNUSED]
  /\ root_swap = 0
  /\ i = 0
  /\ prev = 0
  /\ buffer = 0
  /\ next = 0
  /\ eaten_memory = <<>>
  /\ snap = NoSnap

Configs ==
  { [layout |-> L, order |-> order, dev |-> d] :
      L \in Layouts, order \in {"asc", "desc"}, d \in DevConfigs }

Init ==
  \E c \in Configs :
    /\ cfg = c
    /\ pc = "swsusp_suspend"
    /\ memory = Memory0
    /\ cur = 0
    /\ InitOf(c)

(***************************************************************************)
(* swsusp_suspend: read_swapfiles, then suspend_prepare_image              *)
(***************************************************************************)
ReadSwapfiles ==
  /\ pc = "swsusp_suspend"
  /\ LET len == IF resume_file = NoDev THEN 0 ELSE 1
         r == ReadSwapfilesFrom(0, swap_info, len, swapfile_used, NO_ROOT_SWAP)
     IN /\ swapfile_used' = r.used
        /\ root_swap' = r.root
  /\ pc' = "suspend_prepare_image"
  /\ UNCHANGED <<why, error, cfg, irq, memvars, swapvars, nr_copy_pages, pagedir_nosave,
                 pagedir_save, pagedir_order, nr_copy_pages_check, pagedir_order_check,
                 locals, snap>>

\* A check that forgets the margin for I/O.
NeededPages_nomargin(n) == n

\* nr_needed_pages
NeededPages(n) == n + PAGES_FOR_IO

\* A suspend_prepare_image that looks at the swap space only after it has
\* allocated the directory, and returns without freeing it.
PrepareCount_late ==
  /\ pc = "suspend_prepare_image"
  /\ nr_copy_pages' = Len(Counted)
  /\ IF nr_free_pages < NeededPages(Len(Counted))
       THEN /\ root_swap' = NO_ROOT_SWAP
            /\ error' = 1
            /\ why' = "Couldn't get enough free pages"
            /\ pc' = "suspend_failed"
            /\ pagedir_nosave' = 0
            /\ UNCHANGED <<free_list, PageNosave>>
       ELSE IF freeswap < NeededPages(Len(Counted))
         THEN /\ error' = 1
              /\ why' = "There's not enough swap space available"
              /\ pc' = "suspend_failed"
              /\ pagedir_nosave' = ADDRESS(AllocBase(free_list, 0))
              /\ free_list' = Without(free_list, {AllocBase(free_list, 0)})
              /\ PageNosave' = PageNosave \cup {AllocBase(free_list, 0)}
              /\ UNCHANGED root_swap
         ELSE /\ pc' = "create_suspend_pagedir"
              /\ pagedir_nosave' = 0
              /\ UNCHANGED <<error, why, root_swap, free_list, PageNosave>>
  /\ UNCHANGED <<cfg, irq, PageReserved, memory, swapvars, pagedir_save, pagedir_order,
                 nr_copy_pages_check, pagedir_order_check, swapfile_used, locals, snap>>

\* The counting pass and the two checks of suspend_prepare_image.
PrepareCount ==
  /\ pc = "suspend_prepare_image"
  /\ pagedir_nosave' = 0
  /\ IF CountBug
       THEN /\ pc' = "BUG"
            /\ why' = "PageNosave on a reserved page"
            /\ UNCHANGED <<error, nr_copy_pages, root_swap>>
       ELSE /\ nr_copy_pages' = Len(Counted)
            /\ IF nr_free_pages < NeededPages(Len(Counted))
                 THEN /\ root_swap' = NO_ROOT_SWAP
                      /\ error' = 1
                      /\ why' = "Couldn't get enough free pages"
                      /\ pc' = "suspend_failed"
                 ELSE IF freeswap < NeededPages(Len(Counted))
                   THEN /\ error' = 1
                        /\ why' = "There's not enough swap space available"
                        /\ pc' = "suspend_failed"
                        /\ UNCHANGED root_swap
                   ELSE /\ pc' = "create_suspend_pagedir"
                        /\ UNCHANGED <<error, why, root_swap>>
  /\ UNCHANGED <<cfg, irq, memvars, swapvars, pagedir_save, pagedir_order,
                 nr_copy_pages_check, pagedir_order_check, swapfile_used, locals, snap>>

\* A SetPageNosave that sets nothing.
SetPageNosave_none(nosave, frames) == nosave

\* SetPageNosave on each of frames
SetPageNosave(nosave, frames) == nosave \cup frames

\* create_suspend_pagedir: the directory's own pages.
CreatePagedir ==
  /\ pc = "create_suspend_pagedir"
  /\ LET order == get_bitmask_order(SUSPEND_PD_PAGES(nr_copy_pages)) IN
     /\ pagedir_order' = order
     /\ \/ /\ CanAlloc(free_list, order)
           /\ LET base == AllocBase(free_list, order) IN
              /\ free_list' = Without(free_list, Block(base, order))
              /\ PageNosave' = SetPageNosave(PageNosave, Block(base, order))
              /\ memory' = [f \in Frames |->
                              IF f \in Block(base, order) THEN DirPage(ZeroPbes) ELSE memory[f]]
              /\ pagedir_nosave' = ADDRESS(base)
              /\ pagedir_save' = ADDRESS(base)
           /\ i' = 0
           /\ pc' = "create_buffers"
           /\ UNCHANGED why
        \/ \* __get_free_pages(GFP_ATOMIC) fails: create returns NULL
           /\ pagedir_nosave' = 0
           /\ pagedir_save' = 0
           /\ pc' = "panic"
           /\ why' = "Really should not happen"
           /\ UNCHANGED <<free_list, PageNosave, memory, i>>
  /\ UNCHANGED <<error, cfg, irq, PageReserved, swapvars, nr_copy_pages,
                 nr_copy_pages_check, pagedir_order_check, swapfile_used, root_swap,
                 prev, buffer, cur, next, eaten_memory, snap>>

\* create_suspend_pagedir: while(nr_copy_pages--), one buffer per pbe.
CreateBuffer ==
  /\ pc = "create_buffers"
  /\ i < nr_copy_pages
  /\ \/ /\ CanAlloc(free_list, 0)
        /\ LET f == AllocBase(free_list, 0)
               zeroed == [memory EXCEPT ![f] = ZeroPage]
           IN /\ free_list' = Without(free_list, {f})
              /\ PageNosave' = SetPageNosave(PageNosave, {f})
              /\ memory' = PutPbe(zeroed, pagedir_nosave, i,
                              [GetPbe(zeroed, pagedir_nosave, i) EXCEPT
                                 !.address = ADDRESS(f), !.orig_address = 0])
        /\ i' = i + 1
        /\ UNCHANGED <<pc, why, pagedir_nosave, pagedir_save>>
     \/ \* get_zeroed_page fails: free_suspend_pagedir, return NULL
        /\ free_list' = free_suspend_pagedir_list(free_list, PageNosave, pagedir_nosave, pagedir_order)
        /\ PageNosave' = {}
        /\ pagedir_nosave' = 0
        /\ pagedir_save' = 0
        /\ pc' = "panic"
        /\ why' = "Really should not happen"
        /\ UNCHANGED <<memory, i>>
  /\ UNCHANGED <<error, cfg, irq, PageReserved, swapvars, nr_copy_pages, pagedir_order,
                 nr_copy_pages_check, pagedir_order_check, swapfile_used, root_swap,
                 prev, buffer, cur, next, eaten_memory, snap>>

\* The kernel's variables, as the copying pass saves them with the data.
TakeSnap ==
  [taken |-> TRUE,
   PageNosave |-> PageNosave,
   free_list |-> free_list,
   swap_info |-> swap_info,
   swap_free |-> swap_free,
   pagedir_save |-> pagedir_save,
   nr_copy_pages_check |-> nr_copy_pages,
   pagedir_order_check |-> pagedir_order,
   swapfile_used |-> swapfile_used,
   root_swap |-> root_swap,
   orig |-> [x \in 1 .. Len(Counted) |-> ADDRESS(Counted[x])],
   content |-> [x \in 1 .. Len(Counted) |-> memory[Counted[x]]]]

\* A comparison that only notices a copying pass that counted more.
CountsDiffer_more(n, counted) == n < counted

\* nr_copy_pages != count_and_copy_data_pages(pagedir_nosave)
CountsDiffer(n, counted) == n # counted

\* The end of suspend_prepare_image: the checks, then the copying pass.  A
\* pass that counts more frames than the directory has pbes for writes past
\* the buffers that were allocated: it may fault before it returns.
CopyPass ==
  /\ pc = "create_buffers"
  /\ i = nr_copy_pages
  /\ nr_copy_pages_check' = nr_copy_pages
  /\ pagedir_order_check' = pagedir_order
  /\ IF CountBug \/ CountsDiffer(nr_copy_pages, Len(Counted))
       THEN /\ \/ /\ pc' = "BUG"
                  /\ why' = "count_and_copy_data_pages"
               \/ /\ Len(Counted) > nr_copy_pages
                  /\ pc' = "oops"
                  /\ why' = "copy_page past the last pbe"
            /\ UNCHANGED <<memory, snap>>
       ELSE /\ memory' = CopyFrom(memory, pagedir_nosave, Counted, 1, 0)
            /\ snap' = TakeSnap
            /\ pc' = "suspend_save_image"
            /\ UNCHANGED why
  /\ UNCHANGED <<error, cfg, irq, PageReserved, PageNosave, free_list, swapvars,
                 nr_copy_pages, pagedir_nosave, pagedir_save, pagedir_order,
                 swapfile_used, root_swap, locals>>

(***************************************************************************)
(* mark_swapfiles                                                          *)
(***************************************************************************)
MARK_SWAP_SUSPEND == 0
MARK_SWAP_RESUME == 2

\* A mark_swapfiles that leaves the signature as it found it.
SuspendMagic_keep(magic) == magic

\* A suspend mode that commits over a marker that is committed already.
SuspendMagic_again(magic) ==
  IF MemEq(SWAP_SPACE, magic, 10) \/ MemEq(<<83, 49>>, magic, 2) THEN S1SUSP
  ELSE IF MemEq(SWAPSPACE2, magic, 10) \/ MemEq(<<83, 50>>, magic, 2) THEN S2SUSP
  ELSE <<>>

\* The signature mark_swapfiles stores in suspend mode; <<>> stands for the
\* panic "Swapspace is not swapspace".
SuspendMagic(magic) ==
  IF MemEq(SWAP_SPACE, magic, 10) THEN S1SUSP
  ELSE IF MemEq(SWAPSPACE2, magic, 10) THEN S2SUSP
  ELSE <<>>

\* A resume mode that leaves the signature as it found it.
ResumeMagic_keep(magic) == magic

\* The signature mark_swapfiles stores in resume mode.
ResumeMagic(magic) ==
  IF MemEq(<<83, 49>>, magic, 2) THEN SWAP_SPACE
  ELSE IF MemEq(<<83, 50>>, magic, 2) THEN SWAPSPACE2
  ELSE magic

\* A mark_swapfiles that stores the committed signature without the link.
MarkedPage_nolink(page, entry, mode) ==
  IF mode = MARK_SWAP_RESUME
    THEN (IF page.kind = "swh" THEN SetMagic(page, ResumeMagic(AsMagic(page))) ELSE page)
    ELSE IF SuspendMagic(AsMagic(page)) = <<>>
      THEN [kind |-> "panic"]
      ELSE SetMagic(page, SuspendMagic(AsMagic(page)))

\* The page mark_swapfiles writes back to the first slot of root_swap, from
\* the page it read there; a page of kind "panic" stands for the panic.
MarkedPage(page, entry, mode) ==
  IF mode = MARK_SWAP_RESUME
    THEN (IF page.kind = "swh" THEN SetMagic(page, ResumeMagic(AsMagic(page))) ELSE page)
    ELSE IF SuspendMagic(AsMagic(page)) = <<>>
      THEN [kind |-> "panic"]
      ELSE SetLinkNext(SetMagic(page, SuspendMagic(AsMagic(page))), entry)

(***************************************************************************)
(* suspend_save_image and write_suspend_image                              *)
(***************************************************************************)
\* The interrupt flag after local_irq_enable().
local_irq_enable == TRUE

\* A return that leaves the interrupts on.
local_irq_disable_skipped == TRUE

\* The interrupt flag after local_irq_disable().
local_irq_disable == FALSE

\* local_irq_enable, device_resume, lock_swapdevices, and the first lines of
\* write_suspend_image: the header's buffer is allocated and never checked.
SaveImageBegin ==
  /\ pc = "suspend_save_image"
  /\ irq' = local_irq_enable
  /\ swap_info' = lock_swapdevices(swap_info, swapfile_used)
  /\ \/ /\ CanAlloc(free_list, 0)
        /\ LET f == AllocBase(free_list, 0) IN
           /\ free_list' = Without(free_list, {f})
           /\ memory' = [memory EXCEPT ![f] = ZeroPage]
           /\ buffer' = ADDRESS(f)
     \/ /\ buffer' = 0
        /\ UNCHANGED <<free_list, memory>>
  /\ i' = 0
  /\ prev' = 0
  /\ pc' = "write_data"
  /\ UNCHANGED <<why, error, cfg, PageReserved, PageNosave, swap_free, swap_prio, disk,
                 resume_file, kvars, cur, next, eaten_memory, snap>>

\* A test of the entry that takes "no slot" for a slot.
SlotPanic_noslot(entry, nomsg, devmsg) ==
  IF entry # 0 /\ swapfile_used[swp_type(entry)] # SWAPFILE_SUSPEND THEN devmsg
  ELSE ""

\* What a phase does with the entry get_swap_page returned: the panic
\* message, or "" when the slot can be used.
SlotPanic(entry, nomsg, devmsg) ==
  IF entry = 0 THEN nomsg
  ELSE IF swapfile_used[swp_type(entry)] # SWAPFILE_SUSPEND THEN devmsg
  ELSE ""

\* A data loop that stops one page early.
MoreData_short(k, n) == k + 1 < n

\* for (i=0; i<nr_copy_pages; i++)
MoreData(k, n) == k < n

\* The data phase: one page per pbe.
WriteData ==
  /\ pc = "write_data"
  /\ IF MoreData(i, nr_copy_pages)
       THEN LET entry == get_swap_page(swap_info, swap_free, swap_prio)
                msg == SlotPanic(entry, "Not enough swapspace when writing data",
                                 "not enough swapspace on suspend device")
                p == GetPbe(memory, pagedir_nosave, i)
            IN IF msg # ""
                 THEN /\ pc' = "panic"
                      /\ why' = msg
                      /\ swap_free' = IF entry = 0 THEN swap_free ELSE TakeSlot(swap_free, entry)
                      /\ UNCHANGED <<disk, memory, i>>
                 ELSE /\ swap_free' = TakeSlot(swap_free, entry)
                      /\ disk' = WriteSlot(disk, entry, memory[PfnOf(p.address)])
                      /\ memory' = PutPbe(memory, pagedir_nosave, i,
                                          [p EXCEPT !.swap_address = entry])
                      /\ i' = i + 1
                      /\ UNCHANGED <<pc, why>>
       ELSE /\ pc' = "write_pagedir"
            /\ i' = 0
            /\ UNCHANGED <<why, swap_free, disk, memory>>
  /\ UNCHANGED <<error, cfg, irq, PageReserved, PageNosave, free_list, swap_info,
                 swap_prio, resume_file, kvars, prev, buffer, cur, next, eaten_memory, snap>>

\* The directory phase: page i of the directory, chained to the page before.
WritePagedir ==
  /\ pc = "write_pagedir"
  /\ IF i < SUSPEND_PD_PAGES(nr_copy_pages)
       THEN LET entry == get_swap_page(swap_info, swap_free, swap_prio)
                msg == SlotPanic(entry, "Don't know how to recover",
                                 "Not enough swapspace for pagedir on suspend device")
                f == PfnOf(pagedir_nosave) + i
                linked == SetLinkNext(memory[f], prev)
            IN IF msg # ""
                 THEN /\ pc' = "panic"
                      /\ why' = msg
                      /\ swap_free' = IF entry = 0 THEN swap_free ELSE TakeSlot(swap_free, entry)
                      /\ UNCHANGED <<disk, memory, i, prev>>
                 ELSE /\ swap_free' = TakeSlot(swap_free, entry)
                      /\ memory' = [memory EXCEPT ![f] = linked]
                      /\ disk' = WriteSlot(disk, entry, linked)
                      /\ prev' = entry
                      /\ i' = i + 1
                      /\ UNCHANGED <<pc, why>>
       ELSE /\ pc' = "write_header"
            /\ UNCHANGED <<why, swap_free, disk, memory, i, prev>>
  /\ UNCHANGED <<error, cfg, irq, PageReserved, PageNosave, free_list, swap_info,
                 swap_prio, resume_file, kvars, buffer, cur, next, eaten_memory, snap>>

\* The header phase.  A NULL buffer is dereferenced when its allocation
\* failed: an oops.
WriteHeader ==
  /\ pc = "write_header"
  /\ LET entry == get_swap_page(swap_info, swap_free, swap_prio)
         msg == SlotPanic(entry, "Not enough swapspace when writing header",
                          "Not enough swapspace for header on suspend device")
         page == SetLinkNext(HdrPage(fill_suspend_header(System, pagedir_nosave, nr_copy_pages), 0), prev)
     IN IF msg # ""
          THEN /\ pc' = "panic"
               /\ why' = msg
               /\ swap_free' = IF entry = 0 THEN swap_free ELSE TakeSlot(swap_free, entry)
               /\ UNCHANGED <<disk, memory, prev>>
          ELSE IF pagedir_save # pagedir_nosave
            THEN /\ pc' = "BUG"
                 /\ why' = "pagedir_save != pagedir_nosave"
                 /\ swap_free' = TakeSlot(swap_free, entry)
                 /\ UNCHANGED <<disk, memory, prev>>
          ELSE IF buffer = 0
            THEN /\ pc' = "oops"
                 /\ why' = "NULL buffer in write_suspend_image"
                 /\ swap_free' = TakeSlot(swap_free, entry)
                 /\ UNCHANGED <<disk, memory, prev>>
          ELSE /\ swap_free' = TakeSlot(swap_free, entry)
               /\ memory' = [memory EXCEPT ![PfnOf(buffer)] = page]
               /\ disk' = WriteSlot(disk, entry, page)
               /\ prev' = entry
               /\ pc' = "mark_swapfiles"
               /\ UNCHANGED why
  /\ UNCHANGED <<error, cfg, irq, PageReserved, PageNosave, free_list, swap_info,
                 swap_prio, resume_file, kvars, i, buffer, cur, next, eaten_memory, snap>>

\* mark_swapfiles(prev, MARK_SWAP_SUSPEND), then free_page(buffer).
MarkSuspend ==
  /\ pc = "mark_swapfiles"
  /\ IF root_swap = NO_ROOT_SWAP
       THEN /\ free_list' = <<PfnOf(buffer)>> \o free_list
            /\ pc' = "write_done"
            /\ UNCHANGED <<why, memory, disk>>
       ELSE \/ /\ CanAlloc(free_list, 0)
               /\ LET f == AllocBase(free_list, 0)
                      entry == swp_entry(root_swap, 0)
                      page == MarkedPage(disk[root_swap][0], prev, MARK_SWAP_SUSPEND)
                  IN IF page.kind = "panic"
                       THEN /\ pc' = "panic"
                            /\ why' = "Swapspace is not swapspace"
                            /\ free_list' = Without(free_list, {f})
                            /\ memory' = [memory EXCEPT ![f] = disk[root_swap][0]]
                            /\ UNCHANGED disk
                       ELSE /\ memory' = [memory EXCEPT ![f] = page]
                            /\ disk' = WriteSlot(disk, entry, page)
                            \* __free_page(page), then free_page(buffer)
                            /\ free_list' = <<PfnOf(buffer), f>> \o Without(free_list, {f})
                            /\ pc' = "write_done"
                            /\ UNCHANGED why
            \/ /\ pc' = "panic"
               /\ why' = "Out of memory in mark_swapfiles"
               /\ UNCHANGED <<free_list, memory, disk>>
  /\ UNCHANGED <<error, cfg, irq, PageReserved, PageNosave, swap_info, swap_free,
                 swap_prio, resume_file, kvars, locals, snap>>

\* write_suspend_image returns 0; lock_swapdevices, local_irq_disable.
SaveImageEnd ==
  /\ pc = "write_done"
  /\ error' = 0
  /\ swap_info' = lock_swapdevices(swap_info, swapfile_used)
  /\ irq' = local_irq_disable
  /\ pc' = "suspended"
  /\ UNCHANGED <<why, cfg, memvars, swap_free, swap_prio, disk, resume_file, kvars,
                 locals, snap>>

(***************************************************************************)
(* The next boot.                                                          *)
(***************************************************************************)
ENOENT == -2
EIO == -5
ENOMEM == -12
EFAULT == -14
EINVAL == -22
EPERM == -1

\* The content of frame f in the freshly booted kernel.
BootContent(f) == 200 + f

\* The machine was powered off with the image on swap and boots again: the
\* same kernel, its variables as initialised, every frame that is not
\* reserved free, no swap device active yet.  d is what the swap devices
\* hold when the machine boots.
RebootWith(d) ==
  /\ pc = "suspended"
  /\ error = 0
  /\ disk' = d
  /\ \E order \in {"asc", "desc"} :
       free_list' = Ordered(Frames \ PageReserved, order)
  /\ PageNosave' = {}
  /\ memory' = [f \in Frames |-> DataPage(BootContent(f))]
  /\ swap_info' = [t \in SwapTypes |-> 0]
  /\ swap_free' = [t \in SwapTypes |-> {}]
  /\ nr_copy_pages' = 0
  /\ pagedir_nosave' = 0
  /\ pagedir_save' = 0
  /\ pagedir_order' = 0
  /\ nr_copy_pages_check' = 0
  /\ pagedir_order_check' = 0
  /\ swapfile_used' = [t \in SwapTypes |-> SWAPFILE_UNUSED]
  /\ root_swap' = 0
  /\ i' = 0
  /\ prev' = 0
  /\ buffer' = 0
  /\ cur' = 0
  /\ next' = 0
  /\ eaten_memory' = <<>>
  /\ irq' = TRUE
  /\ pc' = "swsusp_read"
  /\ UNCHANGED <<why, error, cfg, PageReserved, swap_prio, resume_file, snap>>

\* The swap devices were left alone while the machine was off.
Reboot == RebootWith(disk)

\* The slots of the resume device that hold a page of the chain.
ChainSlots == {o \in Offsets : disk[resume_file][o].kind \in {"hdr", "dir"}}

\* Something rewrote the link of one page of the chain while the machine was
\* off (a failing disk, another system using the swap area).
RebootCorrupt ==
  /\ resume_file # NoDev
  /\ \E o \in ChainSlots : \E v \in Offsets :
       /\ v # LinkNext(disk[resume_file][o])
       /\ RebootWith([disk EXCEPT ![resume_file][o] = SetLinkNext(@, v)])

\* The headers of another system: sh with one of the six checked fields
\* changed.
ForeignHeaders(sh) ==
  { [sh EXCEPT !.version_code = @ + 1],
    [sh EXCEPT !.num_physpages = @ + 1],
    [sh EXCEPT !.machine[2] = 53],
    [sh EXCEPT !.version[20] = 57],
    [sh EXCEPT !.num_cpus = @ + 1],
    [sh EXCEPT !.page_size = 2 * @] }

\* The image on swap was written by another kernel or on another machine
\* than the one that boots.
RebootForeign ==
  /\ resume_file # NoDev
  /\ \E o \in Offsets :
       /\ disk[resume_file][o].kind = "hdr"
       /\ \E sh \in ForeignHeaders(disk[resume_file][o].sh) :
            RebootWith([disk EXCEPT ![resume_file][o].sh = sh])

\* swsusp_read up to the call of read_suspend_image.
SwsuspRead ==
  /\ pc = "swsusp_read"
  /\ IF resume_file = NoDev
       THEN /\ error' = ENOENT
            /\ why' = "no resume= device"
            /\ pc' = "resume_failed"
            /\ UNCHANGED <<free_list, memory, cur>>
       ELSE \/ /\ CanAlloc(free_list, 0)
               /\ LET f == AllocBase(free_list, 0) IN
                  /\ free_list' = Without(free_list, {f})
                  /\ memory' = [memory EXCEPT ![f] = ZeroPage]
                  /\ cur' = ADDRESS(f)
               /\ pc' = "read_marker"
               /\ UNCHANGED <<error, why>>
            \/ /\ error' = ENOMEM
               /\ why' = "get_zeroed_page"
               /\ pc' = "resume_failed"
               /\ UNCHANGED <<free_list, memory, cur>>
  /\ UNCHANGED <<cfg, irq, PageReserved, PageNosave, swapvars, kvars, i, prev, buffer,
                 next, eaten_memory, snap>>

\* PREPARENEXT: the block the chain continues at
PrepareNext(page) == swp_offset(LinkNext(page))

\* The page bdev_read_page(bdev, pos, buf) copies to buf
BdevPage(block) == disk[resume_file][block]

IsPlainSwap(magic) == MemEq(SWAP_SPACE, magic, 10) \/ MemEq(SWAPSPACE2, magic, 10)

\* A test that takes every signature that is not plain swap for an image.
IsSuspended_any(magic) == TRUE

IsSuspended(magic) == MemEq(<<83, 49>>, magic, 2) \/ MemEq(<<83, 50>>, magic, 2)

\* read_suspend_image: the marker.
ReadMarker ==
  /\ pc = "read_marker"
  /\ \/ LET page == BdevPage(0) IN
        IF IsPlainSwap(AsMagic(page))
          THEN /\ error' = EINVAL
               /\ why' = "This is normal swap space"
               /\ memory' = [memory EXCEPT ![PfnOf(cur)] = page]
               /\ free_list' = <<PfnOf(cur)>> \o free_list
               /\ pc' = "resume_failed"
               /\ UNCHANGED next
          ELSE IF IsSuspended(AsMagic(page))
            THEN /\ next' = PrepareNext(page)
                 /\ memory' = [memory EXCEPT ![PfnOf(cur)] =
                                 SetMagic(page, ResumeMagic(AsMagic(page)))]
                 /\ pc' = "read_header"
                 /\ UNCHANGED <<error, why, free_list>>
            ELSE /\ next' = PrepareNext(page)
                 /\ error' = EFAULT
                 /\ why' = "Unable to find suspended-data signature"
                 /\ memory' = [memory EXCEPT ![PfnOf(cur)] = page]
                 /\ free_list' = <<PfnOf(cur)>> \o free_list
                 /\ pc' = "resume_failed"
     \/ /\ error' = EIO
        /\ why' = "bdev_read_page"
        /\ free_list' = <<PfnOf(cur)>> \o free_list
        /\ pc' = "resume_failed"
        /\ UNCHANGED <<memory, next>>
  /\ UNCHANGED <<cfg, irq, PageReserved, PageNosave, swapvars, kvars, i, prev, buffer,
                 cur, eaten_memory, snap>>

\* A check that leaves out the number of cpus.
sanity_check_nocpus(sh, sys) ==
  IF sh.version_code # sys.version_code THEN "Incorrect kernel version"
  ELSE IF sh.num_physpages # sys.num_physpages THEN "Incorrect memory size"
  ELSE IF ~strncmp0(sh.machine, sys.machine, 8) THEN "Incorrect machine type"
  ELSE IF ~strncmp0(sh.version, sys.version, 20) THEN "Incorrect version"
  ELSE IF sh.page_size # sys.page_size THEN "Incorrect PAGE_SIZE"
  ELSE ""

\* A check that leaves out the version string.
sanity_check_noversion(sh, sys) ==
  IF sh.version_code # sys.version_code THEN "Incorrect kernel version"
  ELSE IF sh.num_physpages # sys.num_physpages THEN "Incorrect memory size"
  ELSE IF ~strncmp0(sh.machine, sys.machine, 8) THEN "Incorrect machine type"
  ELSE IF sh.num_cpus # sys.num_cpus THEN "Incorrect number of cpus"
  ELSE IF sh.page_size # sys.page_size THEN "Incorrect PAGE_SIZE"
  ELSE ""

\* sanity_check: "" when the header fits the running system sys, or the
\* reason it does not.
sanity_check(sh, sys) ==
  IF sh.version_code # sys.version_code THEN "Incorrect kernel version"
  ELSE IF sh.num_physpages # sys.num_physpages THEN "Incorrect memory size"
  ELSE IF ~strncmp0(sh.machine, sys.machine, 8) THEN "Incorrect machine type"
  ELSE IF ~strncmp0(sh.version, sys.version, 20) THEN "Incorrect version"
  ELSE IF sh.num_cpus # sys.num_cpus THEN "Incorrect number of cpus"
  ELSE IF sh.page_size # sys.page_size THEN "Incorrect PAGE_SIZE"
  ELSE ""

\* read_suspend_image: the header.
ReadHeader ==
  /\ pc = "read_header"
  /\ \/ LET page == BdevPage(next)
            sh == AsHdr(page)
        IN IF sanity_check(sh, System) # ""
             THEN /\ error' = EPERM
                  /\ why' = sanity_check(sh, System)
                  /\ memory' = [memory EXCEPT ![PfnOf(cur)] = page]
                  /\ free_list' = <<PfnOf(cur)>> \o free_list
                  /\ pc' = "resume_failed"
                  /\ UNCHANGED <<next, pagedir_save, nr_copy_pages, pagedir_order>>
             ELSE /\ next' = PrepareNext(page)
                  /\ memory' = [memory EXCEPT ![PfnOf(cur)] = page]
                  /\ pagedir_save' = sh.suspend_pagedir
                  /\ nr_copy_pages' = sh.num_pbes
                  /\ pagedir_order' = get_bitmask_order(SUSPEND_PD_PAGES(sh.num_pbes))
                  /\ pc' = "alloc_pagedir"
                  /\ UNCHANGED <<error, why, free_list>>
     \/ /\ error' = EIO
        /\ why' = "bdev_read_page"
        /\ free_list' = <<PfnOf(cur)>> \o free_list
        /\ pc' = "resume_failed"
        /\ UNCHANGED <<memory, next, pagedir_save, nr_copy_pages, pagedir_order>>
  /\ UNCHANGED <<cfg, irq, PageReserved, PageNosave, swapvars, pagedir_nosave,
                 nr_copy_pages_check, pagedir_order_check, swapfile_used, root_swap,
                 i, prev, buffer, cur, eaten_memory, snap>>

\* read_suspend_image: the directory's block.
AllocPagedir ==
  /\ pc = "alloc_pagedir"
  /\ \/ /\ CanAlloc(free_list, pagedir_order)
        /\ LET base == AllocBase(free_list, pagedir_order) IN
           /\ free_list' = Without(free_list, Block(base, pagedir_order))
           /\ pagedir_nosave' = ADDRESS(base)
        /\ i' = SUSPEND_PD_PAGES(nr_copy_pages) - 1
        /\ pc' = "read_pagedir"
        /\ UNCHANGED <<error, why>>
     \/ /\ pagedir_nosave' = 0
        /\ error' = ENOMEM
        /\ why' = "__get_free_pages for the pagedir"
        /\ free_list' = <<PfnOf(cur)>> \o free_list
        /\ pc' = "resume_failed"
        /\ UNCHANGED i
  /\ UNCHANGED <<cfg, irq, PageReserved, PageNosave, memory, swapvars, nr_copy_pages,
                 pagedir_save, pagedir_order, nr_copy_pages_check, pagedir_order_check,
                 swapfile_used, root_swap, prev, buffer, cur, next, eaten_memory, snap>>

\* read_suspend_image: the directory pages, last page first.
ReadPagedir ==
  /\ pc = "read_pagedir"
  /\ IF i >= 0
       THEN IF next = 0
              THEN /\ pc' = "BUG"
                   /\ why' = "BUG_ON(!next.val)"
                   /\ UNCHANGED <<error, memory, free_list, next, i>>
              ELSE \/ /\ memory' = [memory EXCEPT ![PfnOf(pagedir_nosave) + i] = BdevPage(next)]
                      /\ next' = PrepareNext(BdevPage(next))
                      /\ i' = i - 1
                      /\ UNCHANGED <<pc, error, why, free_list>>
                   \/ /\ error' = EIO
                      /\ why' = "bdev_read_page"
                      /\ free_list' = <<PfnOf(cur)>> \o free_list
                      /\ pc' = "resume_failed"
                      /\ UNCHANGED <<memory, next, i>>
       ELSE IF next # 0
              THEN /\ pc' = "BUG"
                   /\ why' = "BUG_ON(next.val)"
                   /\ UNCHANGED <<error, memory, free_list, next, i>>
              ELSE /\ pc' = "relocate_pagedir"
                   /\ UNCHANGED <<error, why, memory, free_list, next, i>>
  /\ UNCHANGED <<cfg, irq, PageReserved, PageNosave, swapvars, kvars, prev, buffer,
                 cur, eaten_memory, snap>>

\* A comparison that misses an orig_address equal to addr.
does_collide_order_strict(mem, pagedir, addr, order) ==
  \E k \in 0 .. (nr_copy_pages - 1) :
    /\ GetPbe(mem, pagedir, k).orig_address > addr
    /\ GetPbe(mem, pagedir, k).orig_address < addr + Pow2(order)

\* A comparison that looks at the first page of the block only.
does_collide_order_first(mem, pagedir, addr, order) ==
  \E k \in 0 .. (nr_copy_pages - 1) :
    /\ GetPbe(mem, pagedir, k).orig_address >= addr
    /\ GetPbe(mem, pagedir, k).orig_address < addr + 1

\* does_collide_order: some orig_address lies in the 2^order pages at addr.
does_collide_order(mem, pagedir, addr, order) ==
  \E k \in 0 .. (nr_copy_pages - 1) :
    /\ GetPbe(mem, pagedir, k).orig_address >= addr
    /\ GetPbe(mem, pagedir, k).orig_address < addr + Pow2(order)

does_collide(mem, addr) == does_collide_order(mem, pagedir_nosave, addr, 0)

\* A copy that stops after the first page of the block.
copy_pagedir_onepage(mem, to, from) ==
  [f \in Frames |-> IF f = PfnOf(to) THEN mem[PfnOf(from)] ELSE mem[f]]

\* copy_pagedir(to, from)
copy_pagedir(mem, to, from) ==
  [f \in Frames |->
     IF f \in Block(PfnOf(to), pagedir_order)
       THEN mem[PfnOf(from) + (f - PfnOf(to))]
       ELSE mem[f]]

\* The loop that frees the eaten blocks: it frees *c, the block after c, so
\* every block of the chain but its head.
RECURSIVE FreeBlocks(_, _, _)
FreeBlocks(fl, bases, order) ==
  IF bases = <<>> THEN fl
  ELSE FreeBlocks(FreeBlock(fl, PfnOf(bases[1]), order), Tail(bases), order)

\* What the freeing loop does to the chain eaten (its head first), in
\* order: it reads the pointer stored in block c, moves c to the block read
\* and frees that block, until the pointer read is NULL.
RECURSIVE FreeLoop(_)
FreeLoop(eaten) ==
  IF eaten = <<>> THEN <<>>
  ELSE <<[op |-> "read", block |-> eaten[1]]>>
       \o (IF Len(eaten) >= 2 THEN <<[op |-> "free", block |-> eaten[2]]>> ELSE <<>>)
       \o FreeLoop(Tail(eaten))

\* Some block is read after it was freed.
ReadsFreed(events) ==
  \E x, y \in 1 .. Len(events) :
    /\ x < y
    /\ events[x].op = "free"
    /\ events[y].op = "read"
    /\ events[x].block = events[y].block

FreedEaten(eaten) == IF eaten = <<>> THEN <<>> ELSE Tail(eaten)

\* relocate_pagedir: is relocation necessary?
RelocateCheck ==
  /\ pc = "relocate_pagedir"
  /\ eaten_memory' = <<>>
  /\ i' = 0
  /\ pc' = IF does_collide_order(memory, pagedir_nosave, pagedir_nosave, pagedir_order)
             THEN "relocate_loop"
             ELSE "check_pagedir"
  /\ UNCHANGED <<why, error, cfg, irq, memvars, swapvars, kvars, prev, buffer,
                 cur, next, snap>>

\* relocate_pagedir: one candidate block.  The freeing loop reads the link
\* of a block it has just freed: the read finds the link still there, or
\* the machine stops (the page is unmapped or was taken and overwritten).
RelocateTry ==
  /\ pc = "relocate_loop"
  /\ \/ /\ CanAlloc(free_list, pagedir_order)
        /\ LET base == AllocBase(free_list, pagedir_order)
               m == ADDRESS(base)
               taken == Without(free_list, Block(base, pagedir_order))
           IN IF does_collide_order(memory, pagedir_nosave, m, pagedir_order)
                THEN /\ eaten_memory' = <<m>> \o eaten_memory
                     /\ memory' = [memory EXCEPT ![base] =
                                     IF eaten_memory = <<>> THEN ZeroPage ELSE DataPage(JunkTok)]
                     /\ free_list' = taken
                     /\ UNCHANGED <<pc, pagedir_nosave>>
                ELSE /\ pagedir_nosave' = m
                     /\ memory' = copy_pagedir(memory, m, pagedir_nosave)
                     /\ free_list' = FreeBlocks(taken, FreedEaten(eaten_memory), pagedir_order)
                     /\ pc' = "check_pagedir"
                     /\ UNCHANGED eaten_memory
        /\ UNCHANGED <<error, why>>
     \/ /\ CanAlloc(free_list, pagedir_order)
        /\ LET base == AllocBase(free_list, pagedir_order)
               m == ADDRESS(base)
               taken == Without(free_list, Block(base, pagedir_order))
           IN /\ ~does_collide_order(memory, pagedir_nosave, m, pagedir_order)
              /\ ReadsFreed(FreeLoop(eaten_memory))
              /\ pagedir_nosave' = m
              /\ memory' = copy_pagedir(memory, m, pagedir_nosave)
              /\ free_list' = FreeBlock(taken, PfnOf(eaten_memory[2]), pagedir_order)
        /\ pc' = "oops"
        /\ why' = "relocate_pagedir reads a freed block"
        /\ UNCHANGED <<error, eaten_memory>>
     \/ /\ error' = ENOMEM
        /\ why' = "relocate_pagedir"
        /\ free_list' = <<PfnOf(cur)>> \o free_list
        /\ pc' = "resume_failed"
        /\ UNCHANGED <<memory, pagedir_nosave, eaten_memory>>
  /\ UNCHANGED <<cfg, irq, PageReserved, PageNosave, swapvars, nr_copy_pages,
                 pagedir_save, pagedir_order, nr_copy_pages_check, pagedir_order_check,
                 swapfile_used, root_swap, i, prev, buffer, cur, next, snap>>

\* A check_pagedir that panics when it runs out of memory.
CheckPagedir_panic ==
  /\ pc = "check_pagedir"
  /\ IF i < nr_copy_pages
       THEN \/ /\ CanAlloc(free_list, 0)
               /\ LET f == AllocBase(free_list, 0)
                      zeroed == [memory EXCEPT ![f] = ZeroPage]
                  IN /\ free_list' = Without(free_list, {f})
                     /\ IF does_collide(zeroed, ADDRESS(f))
                          THEN /\ memory' = zeroed
                               /\ UNCHANGED i
                          ELSE /\ memory' = PutPbe(zeroed, pagedir_nosave, i,
                                              [GetPbe(zeroed, pagedir_nosave, i) EXCEPT
                                                 !.address = ADDRESS(f)])
                               /\ i' = i + 1
               /\ UNCHANGED <<pc, error, why>>
            \/ /\ why' = "check_pagedir"
               /\ pc' = "panic"
               /\ UNCHANGED <<error, free_list, memory, i>>
       ELSE /\ pc' = "read_data"
            /\ i' = 0
            /\ UNCHANGED <<error, why, memory, free_list>>
  /\ UNCHANGED <<cfg, irq, PageReserved, PageNosave, swapvars, kvars, prev, buffer,
                 cur, next, eaten_memory, snap>>

\* A check_pagedir that gives a page that collides back to the allocator.
CheckPagedir_release ==
  /\ pc = "check_pagedir"
  /\ IF i < nr_copy_pages
       THEN \/ /\ CanAlloc(free_list, 0)
               /\ LET f == AllocBase(free_list, 0)
                      zeroed == [memory EXCEPT ![f] = ZeroPage]
                  IN /\ free_list' = IF does_collide(zeroed, ADDRESS(f))
                                       THEN free_list
                                       ELSE Without(free_list, {f})
                     /\ IF does_collide(zeroed, ADDRESS(f))
                          THEN /\ memory' = zeroed
                               /\ UNCHANGED i
                          ELSE /\ memory' = PutPbe(zeroed, pagedir_nosave, i,
                                              [GetPbe(zeroed, pagedir_nosave, i) EXCEPT
                                                 !.address = ADDRESS(f)])
                               /\ i' = i + 1
               /\ UNCHANGED <<pc, error, why>>
            \/ /\ error' = ENOMEM
               /\ why' = "check_pagedir"
               /\ free_list' = <<PfnOf(cur)>> \o free_list
               /\ pc' = "resume_failed"
               /\ UNCHANGED <<memory, i>>
       ELSE /\ pc' = "read_data"
            /\ i' = 0
            /\ UNCHANGED <<error, why, memory, free_list>>
  /\ UNCHANGED <<cfg, irq, PageReserved, PageNosave, swapvars, kvars, prev, buffer,
                 cur, next, eaten_memory, snap>>

\* check_pagedir: a buffer for pbe i that collides with no orig_address.
CheckPagedir ==
  /\ pc = "check_pagedir"
  /\ IF i < nr_copy_pages
       THEN \/ /\ CanAlloc(free_list, 0)
               /\ LET f == AllocBase(free_list, 0)
                      zeroed == [memory EXCEPT ![f] = ZeroPage]
                  IN /\ free_list' = Without(free_list, {f})
                     /\ IF does_collide(zeroed, ADDRESS(f))
                          THEN /\ memory' = zeroed
                               /\ UNCHANGED i
                          ELSE /\ memory' = PutPbe(zeroed, pagedir_nosave, i,
                                              [GetPbe(zeroed, pagedir_nosave, i) EXCEPT
                                                 !.address = ADDRESS(f)])
                               /\ i' = i + 1
               /\ UNCHANGED <<pc, error, why>>
            \/ /\ error' = ENOMEM
               /\ why' = "check_pagedir"
               /\ free_list' = <<PfnOf(cur)>> \o free_list
               /\ pc' = "resume_failed"
               /\ UNCHANGED <<memory, i>>
       ELSE /\ pc' = "read_data"
            /\ i' = 0
            /\ UNCHANGED <<error, why, memory, free_list>>
  /\ UNCHANGED <<cfg, irq, PageReserved, PageNosave, swapvars, kvars, prev, buffer,
                 cur, next, eaten_memory, snap>>

\* read_suspend_image: the data pages; then swsusp_read frees cur.
ReadData ==
  /\ pc = "read_data"
  /\ IF i < nr_copy_pages
       THEN \/ LET p == GetPbe(memory, pagedir_nosave, i) IN
               /\ memory' = [memory EXCEPT ![PfnOf(p.address)] =
                               BdevPage(swp_offset(p.swap_address))]
               /\ i' = i + 1
               /\ UNCHANGED <<pc, error, why, free_list>>
            \/ /\ error' = EIO
               /\ why' = "bdev_read_page"
               /\ free_list' = <<PfnOf(cur)>> \o free_list
               /\ pc' = "resume_failed"
               /\ UNCHANGED <<memory, i>>
       ELSE /\ error' = 0
            /\ free_list' = <<PfnOf(cur)>> \o free_list
            /\ pc' = "swsusp_restore"
            /\ UNCHANGED <<why, memory, i>>
  /\ UNCHANGED <<cfg, irq, PageReserved, PageNosave, swapvars, kvars, prev, buffer,
                 cur, next, eaten_memory, snap>>

(***************************************************************************)
(* swsusp_restore, swsusp_resume, swsusp_free                              *)
(***************************************************************************)
\* The loaded image is the snapshot: the same frames, the same content.
ImageIsSnapshot ==
  /\ snap.taken
  /\ nr_copy_pages = Len(snap.orig)
  /\ \A k \in 0 .. (nr_copy_pages - 1) :
       LET p == GetPbe(memory, pagedir_nosave, k) IN
       /\ p.orig_address = snap.orig[k + 1]
       /\ p.address # 0
       /\ memory[PfnOf(p.address)] = snap.content[k + 1]

\* COPY_PAGES_BACK: every buffer is copied to its orig_address, in order.
RECURSIVE CopyBack(_, _)
CopyBack(mem, k) ==
  IF k >= nr_copy_pages THEN mem
  ELSE LET p == GetPbe(mem, pagedir_nosave, k) IN
       CopyBack([mem EXCEPT ![PfnOf(p.orig_address)] = mem[PfnOf(p.address)]], k + 1)

\* swsusp_arch_suspend(1): the saved pages replace the running kernel's, and
\* with them every variable that is not __nosavedata.
Restore ==
  /\ pc = "swsusp_restore"
  /\ IF ImageIsSnapshot
       THEN /\ memory' = CopyBack(memory, 0)
            /\ PageNosave' = snap.PageNosave
            /\ free_list' = snap.free_list
            /\ swap_info' = snap.swap_info
            /\ swap_free' = snap.swap_free
            /\ pagedir_save' = snap.pagedir_save
            /\ nr_copy_pages_check' = snap.nr_copy_pages_check
            /\ pagedir_order_check' = snap.pagedir_order_check
            /\ swapfile_used' = snap.swapfile_used
            /\ root_swap' = snap.root_swap
            /\ irq' = FALSE
            /\ pc' = "swsusp_resume"
       ELSE /\ pc' = "corrupt"
            /\ UNCHANGED <<memory, PageNosave, free_list, swap_info, swap_free, pagedir_save,
                           nr_copy_pages_check, pagedir_order_check, swapfile_used,
                           root_swap, irq>>
  /\ UNCHANGED <<why, error, cfg, PageReserved, swap_prio, disk, resume_file,
                 nr_copy_pages, pagedir_nosave, pagedir_order, locals, snap>>

SwsuspResume ==
  /\ pc = "swsusp_resume"
  /\ IF nr_copy_pages_check # nr_copy_pages \/ pagedir_order_check # pagedir_order
       THEN /\ pc' = "BUG"
            /\ why' = "swsusp_resume"
       ELSE /\ pc' = "swsusp_free"
            /\ UNCHANGED why
  /\ UNCHANGED <<error, cfg, irq, memvars, swapvars, kvars, locals, snap>>

\* swsusp_free: free_suspend_pagedir(pagedir_save), then
\* mark_swapfiles(0, MARK_SWAP_RESUME).
SwsuspFree ==
  /\ pc = "swsusp_free"
  /\ PageNosave' = {}
  /\ LET fl == free_suspend_pagedir_list(free_list, PageNosave, pagedir_save, pagedir_order) IN
     IF root_swap = NO_ROOT_SWAP
       THEN /\ free_list' = fl
            /\ pc' = "resumed"
            /\ UNCHANGED <<why, memory, disk>>
       ELSE \/ /\ CanAlloc(fl, 0)
               /\ LET f == AllocBase(fl, 0)
                      page == MarkedPage(disk[root_swap][0], 0, MARK_SWAP_RESUME)
                  IN /\ memory' = [memory EXCEPT ![f] = page]
                     /\ disk' = WriteSlot(disk, swp_entry(root_swap, 0), page)
                     /\ free_list' = <<f>> \o Without(fl, {f})
               /\ pc' = "resumed"
               /\ UNCHANGED why
            \/ /\ pc' = "panic"
               /\ why' = "Out of memory in mark_swapfiles"
               /\ free_list' = fl
               /\ UNCHANGED <<memory, disk>>
  /\ UNCHANGED <<error, cfg, irq, PageReserved, swap_info, swap_free, swap_prio,
                 resume_file, kvars, locals, snap>>

ResumeNext ==
  \/ SwsuspRead
  \/ ReadMarker
  \/ ReadHeader
  \/ AllocPagedir
  \/ ReadPagedir
  \/ RelocateCheck
  \/ RelocateTry
  \/ CheckPagedir
  \/ ReadData
  \/ Restore
  \/ SwsuspResume
  \/ SwsuspFree

SaveNext ==
  \/ ReadSwapfiles
  \/ PrepareCount
  \/ CreatePagedir
  \/ CreateBuffer
  \/ CopyPass
  \/ SaveImageBegin
  \/ WriteData
  \/ WritePagedir
  \/ WriteHeader
  \/ MarkSuspend
  \/ SaveImageEnd

Next == SaveNext \/ Reboot \/ ResumeNext

Spec == Init /\ [][Next]_vars

\* The same machine with a swap area that may be damaged between the suspend
\* and the resume.
NextChain == Next \/ RebootCorrupt

SpecChain == Init /\ [][NextChain]_vars

\* The same machine resuming from an image it may not have written.
NextForeign == Next \/ RebootForeign

SpecForeign == Init /\ [][NextForeign]_vars

\* Something outside swsusp changes the classification of one frame between
\* the counting pass and the copying pass: a free frame is allocated, or a
\* frame in use is freed.
Disturb ==
  /\ pc = "create_buffers"
  /\ i = nr_copy_pages
  /\ ~CountBug
  /\ Len(Counted) = nr_copy_pages
  /\ \/ /\ CanAlloc(free_list, 0)
        /\ free_list' = Without(free_list, {AllocBase(free_list, 0)})
     \/ \E f \in Frames \ (PageReserved \cup PageNosave \cup Range(free_list)) :
          free_list' = <<f>> \o free_list
  /\ UNCHANGED <<pc, why, error, cfg, irq, PageReserved, PageNosave, memory, swapvars,
                 kvars, locals, snap>>

\* The same machine without the guarantee that nothing else runs during the
\* critical section.
NextRace == Next \/ Disturb

SpecRace == Init /\ [][NextRace]_vars

(***************************************************************************)
(* sanity_check on its own: the header under test is the page at cur.      *)
(***************************************************************************)
\* The values a field of a header on disk is drawn from.
Machines ==
  { strncpy(System.machine, 8),
    <<105, 54, 56, 54, 0, 0, 0, 7>>,
    <<105, 53, 56, 54, 0, 0, 0, 0>>,
    <<105, 54, 56, 54, 95, 54, 52, 0>> }
Versions ==
  { strncpy(System.version, 20),
    [strncpy(System.version, 20) EXCEPT ![20] = 57],
    [strncpy(System.version, 20) EXCEPT ![2] = 50] }
Headers ==
  [version_code : {LINUX_VERSION_CODE, LINUX_VERSION_CODE + 1},
   num_physpages : {NumFrames, NumFrames + 1},
   machine : Machines,
   version : Versions,
   num_cpus : {1, 2},
   page_size : {PAGE_SIZE, 2 * PAGE_SIZE},
   suspend_pagedir : {ADDRESS(1)},
   num_pbes : {0, 1}]

HdrConfig ==
  [layout |-> [head |-> <<"R">>, pad |-> "F", nsb |-> 0, nse |-> 1],
   order |-> "asc",
   dev |-> [active |-> {0}, nfree |-> [t \in SwapTypes |-> IF t = 0 THEN NumSlots ELSE 0],
            prio |-> Ascending(SwapTypes), resume |-> 0]]

\* Either a header read from disk is about to be checked, or the header is
\* about to be filled in by the running system.
InitHdr ==
  /\ cfg = HdrConfig
  /\ InitOf(HdrConfig)
  /\ cur = ADDRESS(NumFrames - 1)
  /\ \/ /\ pc = "sanity_check"
        /\ \E sh \in Headers :
             memory = [Memory0 EXCEPT ![NumFrames - 1] = HdrPage(sh, 0)]
     \/ /\ pc = "fill_suspend_header"
        /\ memory = [Memory0 EXCEPT ![NumFrames - 1] = ZeroPage]

\* fill_suspend_header(&cur->sh)
FillHeader ==
  /\ pc = "fill_suspend_header"
  /\ memory' = [memory EXCEPT ![PfnOf(cur)] =
                  HdrPage(fill_suspend_header(System, pagedir_nosave, nr_copy_pages), 0)]
  /\ pc' = "sanity_check"
  /\ UNCHANGED <<why, error, cfg, irq, PageReserved, PageNosave, free_list, swapvars,
                 kvars, locals, snap>>

\* error = sanity_check(&cur->sh)
SanityCheck ==
  /\ pc = "sanity_check"
  /\ why' = sanity_check(AsHdr(memory[PfnOf(cur)]), System)
  /\ error' = IF sanity_check(AsHdr(memory[PfnOf(cur)]), System) # "" THEN EPERM ELSE 0
  /\ pc' = "sanity_done"
  /\ UNCHANGED <<cfg, irq, memvars, swapvars, kvars, locals, snap>>

NextHdr == FillHeader \/ SanityCheck

SpecHdr == InitHdr /\ [][NextHdr]_vars

(***************************************************************************)
(* The machine with one swap device, run by a processor that does not      *)
(* stop: for the termination of the retry loops.                           *)
(***************************************************************************)
InitLive ==
  /\ Init
  /\ cfg.dev = HdrConfig.dev

\* The processor goes on executing relocate_pagedir and check_pagedir: an
\* allocation that can succeed does not fail for ever, and an allocation
\* fails when no block is left.
LoopFairness ==
  /\ WF_vars(RelocateCheck)
  /\ WF_vars(RelocateTry /\ pc' # "resume_failed")
  /\ WF_vars(RelocateTry /\ ~CanAlloc(free_list, pagedir_order))
  /\ WF_vars(CheckPagedir /\ pc' # "resume_failed")
  /\ WF_vars(CheckPagedir /\ ~CanAlloc(free_list, 0))

SpecLive == InitLive /\ [][Next]_vars /\ LoopFairness

(***************************************************************************)
(* mark_swapfiles and the marker check of read_suspend_image on any        *)
(* marker: the first block of the suspend device holds one of MarkerPages  *)
(* when mark_swapfiles is called, in suspend mode with one of MarkEntries  *)
(* as entry point or in resume mode.                                       *)
(***************************************************************************)
\* Entry points: none, small ones, and words with more than one byte set.
MarkEntries ==
  {0, 1, swp_entry(0, NumSlots), swp_entry(MAX_SWAPFILES - 1, 2), 257, (83 * 256 + 49) * 65536 + 5}

\* What the first block may hold: plain swap of either version, a committed
\* marker of either variant with any entry point, a signature that begins
\* like a committed one, signatures that are neither, and a page that is no
\* swap header.
MarkerPages ==
  {SwhPage(SWAP_SPACE), SwhPage(SWAPSPACE2)}
  \cup {SetLinkNext(SwhPage(S1SUSP), e) : e \in MarkEntries}
  \cup {SetLinkNext(SwhPage(S2SUSP), e) : e \in MarkEntries}
  \cup {SwhPage([S1SUSP EXCEPT ![3] = 88]),
        SwhPage([SWAP_SPACE EXCEPT ![10] = 70]),
        SwhPage(ZeroMagic),
        DataPage(JunkTok)}

\* mark_swapfiles is about to run, in suspend mode (from write_suspend_image,
\* pc = "mark_swapfiles") or in resume mode (from swsusp_free), on the
\* machine of HdrConfig with one frame holding the directory and one the
\* header's buffer.
InitMark ==
  /\ cfg = HdrConfig
  /\ why = ""
  /\ error = 0
  /\ PageReserved = Reserved0(HdrConfig)
  /\ PageNosave = {1}
  /\ free_list = Ordered({f \in Frames : f >= 3}, "asc")
  /\ memory = [Memory0 EXCEPT ![1] = DirPage(ZeroPbes), ![2] = ZeroPage]
  /\ swap_info = SwapInfo0(HdrConfig)
  /\ swap_free = SwapFree0(HdrConfig)
  /\ swap_prio = HdrConfig.dev.prio
  /\ resume_file = 0
  /\ nr_copy_pages = 0
  /\ pagedir_nosave = ADDRESS(1)
  /\ pagedir_save = ADDRESS(1)
  /\ pagedir_order = 0
  /\ nr_copy_pages_check = 0
  /\ pagedir_order_check = 0
  /\ swapfile_used = [t \in SwapTypes |-> IF t = 0 THEN SWAPFILE_SUSPEND ELSE SWAPFILE_UNUSED]
  /\ root_swap \in {0, NO_ROOT_SWAP}
  /\ i = 0
  /\ buffer = ADDRESS(2)
  /\ cur = 0
  /\ next = 0
  /\ eaten_memory = <<>>
  /\ snap = NoSnap
  /\ \E page \in MarkerPages : disk = [Disk0(HdrConfig) EXCEPT ![0][0] = page]
  /\ \/ /\ pc = "mark_swapfiles"
        /\ irq = TRUE
        /\ prev \in MarkEntries
     \/ /\ pc = "swsusp_free"
        /\ irq = FALSE
        /\ prev = 0

\* mark_swapfiles in either mode, and after a commit the return of
\* suspend_save_image, the next boot and read_suspend_image up to the marker.
NextMark ==
  \/ MarkSuspend
  \/ SaveImageEnd
  \/ Reboot
  \/ SwsuspRead
  \/ ReadMarker
  \/ SwsuspFree

SpecMark == InitMark /\ [][NextMark]_vars

(***************************************************************************)
(* Properties.                                                             *)
(***************************************************************************)
\* The directory pagedir_nosave points to.
Pbe(k) == GetPbe(memory, pagedir_nosave, k)
PbeIndices == 0 .. (nr_copy_pages - 1)

\* The page a swap entry names.
Slot(entry) == disk[swp_type(entry)][swp_offset(entry)]

\* The directory in memory lists the frames the copying pass recorded.
LoadedIsSaved ==
  /\ snap.taken
  /\ nr_copy_pages = Len(snap.orig)
  /\ \A k \in PbeIndices : Pbe(k).orig_address = snap.orig[k + 1]

\* write_suspend_image and what follows it on the saving side.
WritePcs == {"write_data", "write_pagedir", "write_header", "mark_swapfiles"}
SavedPcs == {"write_done", "suspended"}

\* C1: round trip.  When read_suspend_image has returned 0 for an image
\* that write_suspend_image wrote, the loaded directory has as many pbes as
\* were saved, with the same orig_address sequence, and the buffer of every
\* pbe holds what the frame at its orig_address held when it was copied.
C1_RoundTrip == (pc = "swsusp_restore") => ImageIsSnapshot

\* C2: once check_pagedir has returned 0, and while the data pages are read
\* into the buffers, no pbe's address equals any pbe's orig_address.
C2_BuffersAvoidOriginals ==
  (pc \in {"read_data", "swsusp_restore"}) =>
    \A a \in PbeIndices : \A b \in PbeIndices :
      Pbe(a).address # Pbe(b).orig_address

\* check_pagedir has returned 0 for a directory of several pbes after it
\* dropped a zeroed page that sits on a frame the image will overwrite.
C2_Witness ==
  /\ pc = "read_data"
  /\ i = nr_copy_pages
  /\ nr_copy_pages >= 2
  /\ LoadedIsSaved
  /\ eaten_memory = <<>>
  /\ \E k \in PbeIndices :
       /\ PfnOf(Pbe(k).orig_address) \notin Range(free_list)
       /\ PfnOf(Pbe(k).orig_address) \notin PageReserved
       /\ memory[PfnOf(Pbe(k).orig_address)] = ZeroPage

\* C3: once relocate_pagedir has returned 0, no pbe's orig_address lies in
\* the 2^pagedir_order pages of the directory pagedir_nosave points to.
C3_DirectoryAvoidsOriginals ==
  (pc \in {"check_pagedir", "read_data", "swsusp_restore"}) =>
    \A k \in PbeIndices :
      PfnOf(Pbe(k).orig_address) \notin Block(PfnOf(pagedir_nosave), pagedir_order)

\* relocate_pagedir has returned 0 with a directory of two pages that it
\* moved after it had set aside at least one colliding block.
C3_Witness ==
  /\ pc = "check_pagedir"
  /\ i = 0
  /\ pagedir_order >= 1
  /\ eaten_memory # <<>>
  /\ LoadedIsSaved

\* C4: after the copying pass the orig_address values of the first
\* nr_copy_pages pbes are pairwise distinct.
C4_OrigAddressesDistinct ==
  (pc \in {"suspend_save_image"} \cup WritePcs \cup SavedPcs) =>
    \A a \in PbeIndices : \A b \in PbeIndices :
      a # b => Pbe(a).orig_address # Pbe(b).orig_address

\* The copying pass has filled a directory of three pbes and skipped a free
\* region of more than one frame that lies before a frame it recorded.
C4_Witness ==
  /\ pc = "suspend_save_image"
  /\ nr_copy_pages >= 3
  /\ \E f \in Frames :
       /\ KindAt(cfg.layout, f) = "F"
       /\ KindAt(cfg.layout, f + 1) = "F"
       /\ \E k \in PbeIndices : Pbe(k).orig_address > ADDRESS(f + 1)

\* The C string a field of n bytes holds: its bytes up to the first NUL.
RECURSIVE CStrFrom(_, _, _)
CStrFrom(a, n, j) ==
  IF j > n \/ CharAt(a, j) = 0 THEN <<>> ELSE <<a[j]>> \o CStrFrom(a, n, j + 1)
CStr(a, n) == CStrFrom(a, n, 1)

\* The header sanity_check is given, and the fields in which it differs from
\* the running system (a string field differs when the strings do, within
\* the width of the field).
HeaderUnderTest == AsHdr(memory[PfnOf(cur)])
FieldsThatDiffer ==
  (IF HeaderUnderTest.version_code # System.version_code THEN {"version_code"} ELSE {})
  \cup (IF HeaderUnderTest.num_physpages # System.num_physpages THEN {"num_physpages"} ELSE {})
  \cup (IF CStr(HeaderUnderTest.machine, 8) # CStr(System.machine, 8) THEN {"machine"} ELSE {})
  \cup (IF CStr(HeaderUnderTest.version, 20) # CStr(System.version, 20) THEN {"version"} ELSE {})
  \cup (IF HeaderUnderTest.num_cpus # System.num_cpus THEN {"num_cpus"} ELSE {})
  \cup (IF HeaderUnderTest.page_size # System.page_size THEN {"page_size"} ELSE {})

\* C5: sanity_check returns failure for a header that differs from the
\* running system in exactly one of the six fields, returns 0 for a header
\* that agrees in all six, and returns 0 for the header fill_suspend_header
\* has just produced.
C5_SanityCheck ==
  (pc = "sanity_done") =>
    /\ (Cardinality(FieldsThatDiffer) = 1) => (error # 0)
    /\ (FieldsThatDiffer = {}) => (error = 0)
    /\ (HeaderUnderTest = fill_suspend_header(System, pagedir_nosave, nr_copy_pages))
         => (error = 0)

\* sanity_check has refused a header whose only difference is the number of
\* cpus.
C5_Witness ==
  /\ pc = "sanity_done"
  /\ FieldsThatDiffer = {"num_cpus"}
  /\ error = EPERM

\* The state of the marker of a device, from the signature in its first slot.
MarkerState(t) ==
  IF IsPlainSwap(AsMagic(disk[t][0])) THEN "normal"
  ELSE IF IsSuspended(AsMagic(disk[t][0])) THEN "committed"
  ELSE "other"

\* C6 as stated: a marker becomes committed only from a third state, the
\* suspend-pending one, that is neither normal nor committed.
C6_PendingBeforeCommitted ==
  [][\A t \in SwapTypes :
       (MarkerState(t)' = "committed" /\ MarkerState(t) # "committed")
         => MarkerState(t) = "other"]_vars

\* C6, amended: the marker has two states.  The only changes of a marker are
\* normal to committed, made on root_swap by the mark_swapfiles call at the
\* end of write_suspend_image, and committed to normal, made on root_swap by
\* swsusp_free; the marker is normal during the whole snapshot.
C6_MarkerTransitions ==
  [][\A t \in SwapTypes :
       (MarkerState(t)' # MarkerState(t)) =>
         /\ t = root_swap
         /\ \/ /\ pc = "mark_swapfiles"
               /\ MarkerState(t) = "normal"
               /\ MarkerState(t)' = "committed"
            \/ /\ pc = "swsusp_free"
               /\ MarkerState(t) = "committed"
               /\ MarkerState(t)' = "normal"]_vars

\* A resume has run to its end: the marker of root_swap was committed by the
\* save and is normal again.
C6_Witness ==
  /\ pc = "resumed"
  /\ snap.taken
  /\ root_swap # NO_ROOT_SWAP
  /\ MarkerState(root_swap) = "normal"

\* What write_suspend_image has put on the swap devices.
DataWritten ==
  \A k \in PbeIndices :
    /\ Pbe(k).swap_address # 0
    /\ Slot(Pbe(k).swap_address) = memory[PfnOf(Pbe(k).address)]
DirWritten ==
  \A j \in 0 .. (SUSPEND_PD_PAGES(nr_copy_pages) - 1) :
    \E t \in SwapTypes : \E o \in Offsets \ {0} :
      /\ disk[t][o].kind = "dir"
      /\ disk[t][o] = memory[PfnOf(pagedir_nosave) + j]
HdrWritten ==
  /\ prev # 0
  /\ Slot(prev).kind = "hdr"
  /\ Slot(prev).sh = fill_suspend_header(System, pagedir_nosave, nr_copy_pages)
OnDisk(kind) == \E t \in SwapTypes : \E o \in Offsets : disk[t][o].kind = kind
Committed == \E t \in SwapTypes : MarkerState(t) = "committed"

\* C7: commit comes last.  No directory page is on disk before every data
\* page is, no header before every directory page is, and the marker is
\* committed only after the header is on disk, with the header's slot as its
\* entry point.
C7_CommitComesLast ==
  /\ (pc = "write_data") => (~OnDisk("dir") /\ ~OnDisk("hdr") /\ ~Committed)
  /\ (pc = "write_pagedir") => (DataWritten /\ ~OnDisk("hdr") /\ ~Committed)
  /\ (pc = "write_header") => (DataWritten /\ DirWritten /\ ~OnDisk("hdr") /\ ~Committed)
  /\ (pc = "mark_swapfiles") => (DataWritten /\ DirWritten /\ HdrWritten /\ ~Committed)
  /\ (pc \in SavedPcs) => (DataWritten /\ DirWritten /\ HdrWritten)
  /\ (pc \in WritePcs \cup SavedPcs /\ Committed) =>
       /\ MarkerState(root_swap) = "committed"
       /\ LinkNext(disk[root_swap][0]) = prev

\* write_suspend_image has committed an image of three data pages and two
\* directory pages.
C7_Witness ==
  /\ pc = "write_done"
  /\ Committed
  /\ nr_copy_pages >= 3
  /\ SUSPEND_PD_PAGES(nr_copy_pages) >= 2

\* The entries met by following link.next from entry e, n hops at most.
RECURSIVE ChainFrom(_, _)
ChainFrom(e, n) ==
  IF e = 0 \/ n = 0 THEN <<>> ELSE <<e>> \o ChainFrom(LinkNext(Slot(e)), n - 1)

\* The blocks read_suspend_image meets on the resume device from block b on,
\* n hops at most.
RECURSIVE ReaderChain(_, _)
ReaderChain(b, n) ==
  IF b = 0 \/ n = 0 THEN <<>> ELSE <<b>> \o ReaderChain(PrepareNext(BdevPage(b)), n - 1)

\* More hops than an image can have pages: a chain that long has a loop.
MaxHops == MAX_SWAPFILES * NumSlots + 1

\* The chain has the header and as many directory pages as the header's
\* num_pbes asks for, then the terminator.
ReaderChainWellFormed ==
  Len(ReaderChain(PrepareNext(BdevPage(0)), MaxHops)) = 1 + SUSPEND_PD_PAGES(nr_copy_pages)

ChainBugs == {"BUG_ON(!next.val)", "BUG_ON(next.val)"}

\* C8 as stated: read_suspend_image never halts on the length of the chain
\* (it returns an error instead).  One swap device, so that every page of
\* the image is on the device that is read.
C8_MalformedChainReturnsError ==
  (Cardinality(cfg.dev.active) = 1) => ~(pc = "BUG" /\ why \in ChainBugs)

\* C8, amended.  The chain write_suspend_image leaves on disk, followed from
\* the marker's entry point, is the header and then the SUSPEND_PD_PAGES
\* (num_pbes) directory pages, last page first, and ends in the terminator.
\* read_suspend_image gets past the directory loop only when the chain it
\* follows has exactly that length; when it halts in one of the two BUG_ONs
\* of the loop the chain had another length (it ended early, went on, or
\* looped).
C8_ChainIntegrity ==
  /\ (pc \in SavedPcs) =>
       /\ LinkNext(disk[root_swap][0]) < MAX_SWAPFILES * SwpRange
       /\ LET ch == ChainFrom(LinkNext(disk[root_swap][0]), MaxHops)
              n == SUSPEND_PD_PAGES(nr_copy_pages)
          IN /\ Len(ch) = 1 + n
             /\ Slot(ch[1]).kind = "hdr"
             /\ Slot(ch[1]).sh.num_pbes = nr_copy_pages
             /\ \A j \in 1 .. n :
                  Slot(ch[1 + j]) = memory[PfnOf(pagedir_nosave) + (n - j)]
  /\ (pc \in {"relocate_pagedir", "relocate_loop", "check_pagedir", "read_data",
              "swsusp_restore"}) => ReaderChainWellFormed
  /\ (pc = "BUG" /\ why \in ChainBugs) => ~ReaderChainWellFormed

\* With one swap device, read_suspend_image has halted on a chain that goes
\* on past the directory pages the header asks for.
C8_Witness ==
  /\ Cardinality(cfg.dev.active) = 1
  /\ pc = "BUG"
  /\ why = "BUG_ON(next.val)"
  /\ nr_copy_pages >= 1

\* The panics of write_suspend_image for want of a swap slot.
OutOfSlots ==
  {"Not enough swapspace when writing data", "not enough swapspace on suspend device",
   "Don't know how to recover", "Not enough swapspace for pagedir on suspend device",
   "Not enough swapspace when writing header",
   "Not enough swapspace for header on suspend device"}

\* C9: once suspend_prepare_image has succeeded, write_suspend_image does
\* not run out of swap slots.
C9_NeverOutOfSlots == ~(pc = "panic" /\ why \in OutOfSlots)

\* The frames the counting pass counts in the initial state of cfg.
Counted0 == CountedFrom(0, Reserved0(cfg), Nosave0(cfg), Range(Free0(cfg)))

\* Fewer free pages than nr_copy_pages + PAGES_FOR_IO at the check.
LowMemory == Len(Free0(cfg)) < Len(Counted0) + PAGES_FOR_IO

\* C10: when the free pages are fewer than nr_copy_pages + PAGES_FOR_IO at
\* the check, preparation returns failure, and no page was allocated or
\* flagged PG_nosave, no swap slot was taken or written, and the marker is
\* as it was.
C10_LowMemoryFailsCleanly ==
  LowMemory =>
    /\ pc \in {"swsusp_suspend", "suspend_prepare_image", "suspend_failed"}
    /\ (pc = "suspend_failed") => (error # 0 /\ why = "Couldn't get enough free pages")
    /\ pagedir_nosave = 0
    /\ free_list = Free0(cfg)
    /\ PageNosave = Nosave0(cfg)
    /\ memory = Memory0
    /\ swap_free = SwapFree0(cfg)
    /\ disk = Disk0(cfg)

\* Preparation has failed with exactly one free page too few, on a machine
\* with a swap device.
C10_Witness ==
  /\ pc = "suspend_failed"
  /\ why = "Couldn't get enough free pages"
  /\ nr_free_pages = nr_copy_pages + PAGES_FOR_IO - 1
  /\ cfg.dev.active # {}

\* C11: when swsusp_suspend returns a nonzero error, the marker of every
\* swap device is a plain-swap signature, every page that was free before
\* the attempt is free, no frame has a PG_nosave flag it did not have before,
\* and no swap slot is taken.
C11_AbortIsClean ==
  (pc = "suspend_failed") =>
    /\ error # 0
    /\ \A t \in cfg.dev.active : IsPlainSwap(AsMagic(disk[t][0]))
    /\ pagedir_nosave = 0
    /\ free_list = Free0(cfg)
    /\ PageNosave = Nosave0(cfg)
    /\ swap_free = SwapFree0(cfg)

\* swsusp_suspend has returned an error because the swap space is too small,
\* with enough free pages and a swap device in use.
C11_Witness ==
  /\ pc = "suspend_failed"
  /\ why = "There's not enough swap space available"
  /\ nr_free_pages >= nr_copy_pages + PAGES_FOR_IO
  /\ cfg.dev.active # {}

\* The first slot of the resume device starts with "S1" or "S2".
CommittedSignature ==
  /\ disk[resume_file][0].kind = "swh"
  /\ <<disk[resume_file][0].magic[1], disk[resume_file][0].magic[2]>>
       \in {<<83, 49>>, <<83, 50>>}

\* C12: when the marker of the resume device is not a committed-image
\* signature, read_suspend_image returns at once (-EINVAL for plain swap,
\* -EFAULT for anything else, -EIO when the read fails): no page but cur is
\* written, no page is allocated, and nr_copy_pages, pagedir_order,
\* pagedir_nosave, pagedir_save and the device are unchanged.
C12_NoImagePresent ==
  [][(pc = "read_marker" /\ ~CommittedSignature) =>
       /\ pc' = "resume_failed"
       /\ error' \in {EINVAL, EFAULT, EIO}
       /\ \A f \in Frames \ {PfnOf(cur)} : memory'[f] = memory[f]
       /\ Range(free_list) \subseteq Range(free_list')
       /\ UNCHANGED <<disk, nr_copy_pages, pagedir_order, pagedir_nosave, pagedir_save>>]_vars

\* After a save, read_suspend_image has found plain swap on the resume
\* device (the marker went to another device).
C12_Witness ==
  /\ pc = "resume_failed"
  /\ why = "This is normal swap space"
  /\ error = EINVAL
  /\ snap.taken

\* The header read_suspend_image is about to read, and whether it differs
\* from the running system in one of the six fields.
HeaderOnDisk == AsHdr(disk[resume_file][next])
HeaderIsForeign ==
  \/ HeaderOnDisk.version_code # System.version_code
  \/ HeaderOnDisk.num_physpages # System.num_physpages
  \/ CStr(HeaderOnDisk.machine, 8) # CStr(System.machine, 8)
  \/ CStr(HeaderOnDisk.version, 20) # CStr(System.version, 20)
  \/ HeaderOnDisk.num_cpus # System.num_cpus
  \/ HeaderOnDisk.page_size # System.page_size

\* C13: when the header on disk does not fit the running system,
\* read_suspend_image returns an error (-EPERM, or -EIO when the read fails)
\* with no page allocated, no page but cur written, nr_copy_pages,
\* pagedir_order, pagedir_save and pagedir_nosave unchanged, and the device
\* unchanged, its marker still the committed signature.
C13_IncompatibleImageUnused ==
  [][(pc = "read_header" /\ HeaderIsForeign) =>
       /\ pc' = "resume_failed"
       /\ error' \in {EPERM, EIO}
       /\ \A f \in Frames \ {PfnOf(cur)} : memory'[f] = memory[f]
       /\ Range(free_list) \subseteq Range(free_list')
       /\ CommittedSignature'
       /\ UNCHANGED <<disk, nr_copy_pages, pagedir_order, pagedir_save, pagedir_nosave>>]_vars

\* read_suspend_image has refused an image saved with another number of
\* cpus.
C13_Witness ==
  /\ pc = "resume_failed"
  /\ why = "Incorrect number of cpus"
  /\ error = EPERM
  /\ CommittedSignature
  /\ pagedir_nosave = 0

\* write_suspend_image is about to ask for a slot, and get_swap_page has none
\* to give or gives one on a device that is not the suspend device.
InSlotPhase ==
  \/ pc = "write_data" /\ i < nr_copy_pages
  \/ pc = "write_pagedir" /\ i < SUSPEND_PD_PAGES(nr_copy_pages)
  \/ pc = "write_header"
NoUsableSlot ==
  LET entry == get_swap_page(swap_info, swap_free, swap_prio) IN
    entry = 0 \/ swapfile_used[swp_type(entry)] # SWAPFILE_SUSPEND

\* No device carries the signature of a committed image.
NoMarkerCommitted ==
  \A t \in SwapTypes :
    disk[t][0].kind = "swh" =>
      <<disk[t][0].magic[1], disk[t][0].magic[2]>> \notin {<<83, 49>>, <<83, 50>>}

\* C14 as stated: a step of write_suspend_image that finds no usable slot
\* ends in panic with no marker committed; every other step goes on towards
\* the return of 0.
C14_PanicOrZero ==
  [][/\ (pc \in WritePcs) =>
          IF InSlotPhase /\ NoUsableSlot
            THEN pc' = "panic" /\ NoMarkerCommitted'
            ELSE pc' \in WritePcs \cup {"write_done"}
     /\ (pc = "write_done") => (error' = 0 /\ pc' = "suspended")]_vars

\* C14: write_suspend_image returns nothing but 0.  A step that finds no
\* usable slot ends in panic with no marker committed and the devices
\* unchanged.  Every other step goes on towards the return of 0 or halts the
\* machine with no marker committed: the header phase when the unchecked
\* allocation of its buffer had failed, mark_swapfiles when it cannot
\* allocate its page.
C14_NeverReturnsFailure ==
  [][/\ (pc \in WritePcs) =>
          IF InSlotPhase /\ NoUsableSlot
            THEN pc' = "panic" /\ NoMarkerCommitted' /\ disk' = disk
            ELSE \/ pc' \in WritePcs \cup {"write_done"}
                 \/ pc = "write_header" /\ buffer = 0 /\ pc' = "oops" /\ NoMarkerCommitted'
                 \/ pc = "mark_swapfiles" /\ pc' = "panic" /\ NoMarkerCommitted'
     /\ (pc = "write_done") => (error' = 0 /\ pc' = "suspended")]_vars

\* The directory phase has found no slot left, after the data was written.
C14_Witness ==
  /\ pc = "panic"
  /\ why = "Don't know how to recover"
  /\ get_swap_page(swap_info, swap_free, swap_prio) = 0
  /\ NoMarkerCommitted
  /\ \E t \in SwapTypes : \E o \in Offsets : disk[t][o].kind = "data"

\* The devices read_swapfiles has classified as the suspend device.
SuspendDevices == {t \in SwapTypes : swapfile_used[t] = SWAPFILE_SUSPEND}

\* C15: slot confinement.  At most one device is classified
\* SWAPFILE_SUSPEND, and every slot that holds a data page, a directory page
\* or the header of the image lies on root_swap, the device that gets the
\* marker.
C15_SlotConfinement ==
  /\ Cardinality(SuspendDevices) <= 1
  /\ (pc \in WritePcs \cup SavedPcs) =>
       \A t \in SwapTypes : \A o \in Offsets :
         disk[t][o].kind \in {"data", "dir", "hdr"} => t = root_swap

\* The frames a pass has to count: used frames without PG_nosave, and
\* reserved frames outside the nosave section.
Saveable ==
  {f \in Frames :
     \/ f \notin PageReserved /\ f \notin PageNosave /\ f \notin Range(free_list)
     \/ f \in PageReserved /\ ~InNosaveSection(f)}

\* C16: the two passes agree.  While create_suspend_pagedir allocates the
\* directory and the buffers, the number of frames a pass counts stays the
\* nr_copy_pages of the counting pass, the copying pass records that many
\* frames, and the BUG() after it is never reached.
C16_PassesAgree ==
  /\ (pc \in {"create_suspend_pagedir", "create_buffers"}) =>
       Cardinality(Saveable) = nr_copy_pages
  /\ (pc = "suspend_save_image") => Len(snap.orig) = nr_copy_pages
  /\ ~(pc = "BUG" /\ why = "count_and_copy_data_pages")

\* The copying pass has returned the count of the counting pass, after the
\* directory and two buffers or more were taken from the free frames.
C16_Witness ==
  /\ pc = "suspend_save_image"
  /\ nr_copy_pages >= 2
  /\ Len(snap.orig) = nr_copy_pages
  /\ Cardinality(PageNosave \ Nosave0(cfg)) > nr_copy_pages

\* The copying pass is about to run and will not count what the counting
\* pass counted.
CountsWillDiffer ==
  /\ pc = "create_buffers"
  /\ i = nr_copy_pages
  /\ Cardinality(Saveable) # nr_copy_pages

\* C17: when the copying pass does not count what the counting pass counted,
\* suspend_prepare_image does not return: the step ends in BUG() (or in a
\* fault of the copy itself), error is not set, no slot is taken and the
\* devices are unchanged; and nothing follows a halt.
C17_MismatchIsFatal ==
  [][/\ CountsWillDiffer =>
          /\ pc' \in {"BUG", "oops"}
          /\ UNCHANGED <<error, disk, swap_free, swap_info>>
     /\ pc \notin {"BUG", "oops", "panic"}]_vars

\* The copying pass has counted fewer frames than the counting pass and the
\* machine has stopped in BUG() with nothing written to swap.
C17_Witness ==
  /\ pc = "BUG"
  /\ why = "count_and_copy_data_pages"
  /\ Cardinality(Saveable) < nr_copy_pages
  /\ disk = Disk0(cfg)
  /\ swap_free = SwapFree0(cfg)

\* The frames of the directory, and the frames of the buffers of its first
\* n pbes.
DirFrames == Block(PfnOf(pagedir_nosave), pagedir_order)
BufferFrames(n) == {PfnOf(Pbe(k).address) : k \in 0 .. (n - 1)}

\* The saving side after the copying pass.
CopiedPcs == {"suspend_save_image"} \cup WritePcs \cup SavedPcs

\* C18: the snapshot never captures its own storage.  Every page of the
\* directory and every buffer carries PG_nosave from its allocation on, and
\* after the copying pass no pbe's orig_address is a page of the directory
\* or a buffer.
C18_SnapshotExcludesItsStorage ==
  /\ (pc = "create_buffers") =>
       (DirFrames \cup BufferFrames(i)) \subseteq PageNosave
  /\ (pc \in CopiedPcs) =>
       /\ (DirFrames \cup BufferFrames(nr_copy_pages)) \subseteq PageNosave
       /\ \A k \in PbeIndices :
            PfnOf(Pbe(k).orig_address) \notin DirFrames \cup BufferFrames(nr_copy_pages)

\* An image of three frames or more, its directory of two pages, has been
\* copied and written.
C18_Witness ==
  /\ pc = "suspended"
  /\ nr_copy_pages > PbesPerPage
  /\ Cardinality(DirFrames) = 2
  /\ Cardinality(BufferFrames(nr_copy_pages)) = nr_copy_pages
  /\ \A k \in PbeIndices : Pbe(k).orig_address = snap.orig[k + 1]

\* How many times frame f is on the free list.
TimesFree(f) == Cardinality({x \in 1 .. Len(free_list) : free_list[x] = f})

\* create_suspend_pagedir has returned NULL.
CreateFailed == pc = "panic" /\ why = "Really should not happen"

\* C19: when create_suspend_pagedir returns NULL, every frame that was free
\* before it was called, the pages of the directory and the buffers it had
\* allocated among them, is on the free list exactly once, and none of them
\* carries PG_nosave.
C19_CreateFailureReleasesAll ==
  CreateFailed =>
    /\ pagedir_nosave = 0
    /\ \A f \in Range(Free0(cfg)) : TimesFree(f) = 1
    /\ PageNosave \cap Range(Free0(cfg)) = {}

\* create_suspend_pagedir has failed on its third buffer, after a directory
\* of two pages and two buffers.
C19_Witness ==
  /\ CreateFailed
  /\ i = 2
  /\ pagedir_order = 1
  /\ nr_copy_pages > i

\* free_suspend_pagedir has run: in create_suspend_pagedir after a failed
\* allocation, or in swsusp_free after the resume.
Destroyed == CreateFailed \/ pc = "resumed"

\* What create_suspend_pagedir took is back: every frame that was free
\* before the suspend is on the free list exactly once and carries no flag.
CreatedIsReleased ==
  /\ \A f \in Range(Free0(cfg)) : TimesFree(f) = 1
  /\ PageNosave \cap Range(Free0(cfg)) = {}

\* C20: free_suspend_pagedir releases exactly what create_suspend_pagedir
\* allocated.  After it has run, every buffer and every page of the
\* directory is free exactly once and carries no PG_nosave, and a frame that
\* carried PG_nosave before create_suspend_pagedir ran still carries it and
\* has not been freed.
C20_DestroyReleasesExactly ==
  Destroyed =>
    /\ CreatedIsReleased
    /\ Nosave0(cfg) \subseteq PageNosave
    /\ Nosave0(cfg) \cap Range(free_list) = {}

\* The marker of device t on disk d carries a committed signature, and its
\* entry point names a slot that holds a header.
SignatureCommitted(d, t) ==
  /\ d[t][0].kind = "swh"
  /\ <<d[t][0].magic[1], d[t][0].magic[2]>> \in {<<83, 49>>, <<83, 50>>}
EntryIsHeader(d, t) ==
  LET e == LinkNext(d[t][0]) IN
    /\ swp_type(e) \in SwapTypes
    /\ swp_offset(e) \in Offsets \ {0}
    /\ d[swp_type(e)][swp_offset(e)].kind = "hdr"

\* On disk a marker is what it was before the suspend, or committed with the
\* slot of a header as its entry point; it is committed once
\* write_suspend_image has returned.
MarkerIsWhole ==
  /\ \A t \in SwapTypes :
       IF SignatureCommitted(disk, t)
         THEN EntryIsHeader(disk, t)
         ELSE disk[t][0] = Disk0(cfg)[t][0]
  /\ (pc \in {"write_done", "suspended"} /\ root_swap # NO_ROOT_SWAP) =>
       SignatureCommitted(disk, root_swap)

\* C21: each marker transition is one write.  A step that changes the
\* marker slot of a device is a step of mark_swapfiles and changes no other
\* slot; and on disk a marker is either what it was before the suspend or a
\* committed signature whose entry point is the slot of a header, never a
\* committed signature without the entry point nor an entry point without
\* the signature.
C21_MarkerIsOneWrite ==
  /\ []MarkerIsWhole
  /\ [][\A t \in SwapTypes :
          (disk'[t][0] # disk[t][0]) =>
            /\ pc \in {"mark_swapfiles", "swsusp_free"}
            /\ t = root_swap
            /\ \A u \in SwapTypes : \A o \in Offsets :
                 (<<u, o>> # <<t, 0>>) => disk'[u][o] = disk[u][o]]_vars

\* The marker has gone from plain swap to committed and back.
C21_Witness ==
  /\ pc = "resumed"
  /\ root_swap # NO_ROOT_SWAP
  /\ disk[root_swap][0] = Disk0(cfg)[root_swap][0]
  /\ \E o \in Offsets : disk[root_swap][o].kind = "hdr"

\* The block of the directory at address a is allocated; it holds a
\* directory: pages of pbes that list the frames of the snapshot.
DirAllocated(a) ==
  /\ a # 0
  /\ Block(PfnOf(a), pagedir_order) \cap Range(free_list) = {}
DirValid(a) ==
  /\ a # 0
  /\ snap.taken
  /\ nr_copy_pages = Len(snap.orig)
  /\ \A f \in Block(PfnOf(a), pagedir_order) : memory[f].kind = "dir"
  /\ \A k \in PbeIndices : GetPbe(memory, a, k).orig_address = snap.orig[k + 1]
DirLive(a) == DirAllocated(a) /\ DirValid(a)

\* read_suspend_image has read the header and not yet returned.
LoadingPcs ==
  {"alloc_pagedir", "read_pagedir", "relocate_pagedir", "relocate_loop", "check_pagedir",
   "read_data"}

OrderPcs == {"create_buffers"} \cup CopiedPcs \cup LoadingPcs \cup {"swsusp_restore"}

\* C23: pagedir_order is the smallest k such that 2^k pages hold the
\* directory of nr_copy_pages pbes: 2^k pages hold them and, for k > 0,
\* 2^(k-1) pages do not; a directory that fits one page has order 0.
C23_OrderIsSmallest ==
  (pc \in OrderPcs) =>
    /\ Pow2(pagedir_order) * PbesPerPage >= nr_copy_pages
    /\ (pagedir_order > 0) => (Pow2(pagedir_order - 1) * PbesPerPage < nr_copy_pages)
    /\ (nr_copy_pages <= PbesPerPage) => (pagedir_order = 0)

\* read_suspend_image has computed order 0 for a directory that fills one
\* page exactly.
C23_Witness ==
  /\ pc = "read_pagedir"
  /\ nr_copy_pages = PbesPerPage
  /\ pagedir_order = 0
  /\ pagedir_order = snap.pagedir_order_check

\* swsusp_read is running.
ReadingPcs == {"swsusp_read", "read_marker", "read_header"} \cup LoadingPcs

\* A read has failed or memory has run out, and swsusp_read has returned.
ResumeGaveUp == pc = "resume_failed" /\ error \in {EIO, ENOMEM}

\* No step of swsusp_read writes the device, and a step that sets an error
\* returns it: the only halts are the two BUG_ONs on the shape of the chain
\* and the read of a freed block once relocate_pagedir has found its block.
ReadStepsRecover ==
  (pc \in ReadingPcs) =>
    /\ disk' = disk
    /\ (error' # 0) => (pc' = "resume_failed")
    /\ (pc' \in {"panic", "BUG", "oops"}) =>
         \/ pc = "read_pagedir" /\ why' \in {"BUG_ON(!next.val)", "BUG_ON(next.val)"}
         \/ pc = "relocate_loop" /\ why' = "relocate_pagedir reads a freed block"

\* C24 as stated: a failed read or an exhausted memory makes swsusp_read
\* return a nonzero error without a panic or BUG, the device unwritten, and
\* the memory at every orig_address of the image as the booting kernel had
\* it.
C24_OrigAddressesUntouched ==
  /\ [][ReadStepsRecover]_vars
  /\ [](ResumeGaveUp =>
          /\ error # 0
          /\ \A x \in 1 .. Len(snap.orig) :
               memory[PfnOf(snap.orig[x])] = DataPage(BootContent(PfnOf(snap.orig[x]))))

\* C24: a failed read or an exhausted memory makes swsusp_read return a
\* nonzero error without a panic or BUG and with the device unwritten.  The
\* attempt writes only to pages it has allocated itself, never to a
\* reserved frame; such a page may lie at an orig_address of the image.
C24_ResumeFailuresRecoverable ==
  /\ [][ReadStepsRecover]_vars
  /\ [][(pc \in ReadingPcs) =>
          \A f \in Frames :
            (memory'[f] # memory[f]) =>
              /\ f \notin PageReserved
              /\ f \notin Range(free_list) \/ f \notin Range(free_list')]_vars
  /\ [](ResumeGaveUp => error # 0)

\* relocate_pagedir has run out of memory after rejecting a candidate; the
\* attempt has written to a page at an orig_address of the image.
C24_Witness ==
  /\ ResumeGaveUp
  /\ why = "relocate_pagedir"
  /\ eaten_memory # <<>>
  /\ \E x \in 1 .. Len(snap.orig) :
       memory[PfnOf(snap.orig[x])] # DataPage(BootContent(PfnOf(snap.orig[x])))

\* swsusp_read has been called for an image that was committed, and
\* swsusp_free has not run yet.
BeforeRevertPcs ==
  ReadingPcs \cup {"resume_failed", "swsusp_restore", "swsusp_resume", "swsusp_free"}

\* C25: the marker is reverted only by swsusp_free.  From the boot until
\* swsusp_free runs, whether the read succeeds or fails, the marker of the
\* device that was committed is still committed on disk; a step that takes a
\* committed marker away is the step of swsusp_free and leaves the plain
\* signature the device had before the suspend; and once swsusp_free has
\* returned the marker is that plain signature.
C25_RevertOnlyBySwsuspFree ==
  /\ []((pc \in BeforeRevertPcs /\ snap.taken) =>
          SignatureCommitted(disk, snap.root_swap))
  /\ [][\A t \in SwapTypes :
          (SignatureCommitted(disk, t) /\ ~SignatureCommitted(disk', t)) =>
            /\ pc = "swsusp_free"
            /\ t = root_swap
            /\ disk'[t][0] = Disk0(cfg)[t][0]]_vars
  /\ []((pc = "resumed") => disk[root_swap][0] = Disk0(cfg)[root_swap][0])

\* A read has failed after the signature was rewritten in memory; the
\* marker on disk is still committed.
C25_Witness ==
  /\ pc = "resume_failed"
  /\ error = EIO
  /\ memory[PfnOf(cur)].kind = "hdr"
  /\ SignatureCommitted(disk, resume_file)

\* The free region that starts at pfn has length len: len free frames, and
\* then a frame that is not free or the end of memory.
FreeRegionIs(pfn, len) ==
  /\ len >= 1
  /\ \A f \in pfn .. (pfn + len - 1) : f \in Frames /\ f \in Range(free_list)
  /\ (pfn + len) \in Frames => (pfn + len) \notin Range(free_list)

\* C26: count_and_copy_data_pages returns the number of frames that are
\* neither non-reserved with PG_nosave, nor non-reserved and free, nor
\* reserved in the nosave section; the length it skips at a free frame is
\* the length of the free region that starts there; and the copying pass
\* records the k-th such frame, in ascending order, as pbe[k].orig_address
\* and copies its content to pbe[k].address.
C26_CountAndCopy ==
  /\ (pc = "create_suspend_pagedir") => nr_copy_pages = Cardinality(Saveable)
  /\ (pc \in {"suspend_prepare_image", "create_suspend_pagedir", "suspend_save_image"}) =>
       \A pfn \in Range(free_list) :
         FreeRegionIs(pfn, is_head_of_free_region(Range(free_list), pfn))
  /\ (pc = "suspend_save_image") =>
       /\ nr_copy_pages = Cardinality(Saveable)
       /\ \A k \in PbeIndices :
            /\ Pbe(k).orig_address = ADDRESS(Ascending(Saveable)[k + 1])
            /\ memory[PfnOf(Pbe(k).address)] = memory[Ascending(Saveable)[k + 1]]
            /\ memory[PfnOf(Pbe(k).address)] = DataPage(Content0(Ascending(Saveable)[k + 1]))

\* The copying pass has copied three frames or more in a memory with a
\* reserved nosave frame, a frame flagged by its owner and two free regions.
C26_Witness ==
  /\ pc = "suspend_save_image"
  /\ nr_copy_pages >= 3
  /\ \E f \in PageReserved : InNosaveSection(f) /\ f \notin Saveable
  /\ Nosave0(cfg) # {}
  /\ \E f \in Range(free_list) : (f + 1) \in Frames \ Range(free_list)
  /\ \A k \in PbeIndices : memory[PfnOf(Pbe(k).address)] = memory[PfnOf(Pbe(k).orig_address)]

(***************************************************************************)
(* The chain on swap and the order it is read in.                          *)
(***************************************************************************)
\* The swap entry reached from the marker of device t after j links, each
\* followed as the full entry (device and offset) the writer stored.
RECURSIVE ChainEntry(_, _)
ChainEntry(t, j) ==
  IF j = 0 THEN LinkNext(disk[t][0]) ELSE LinkNext(Slot(ChainEntry(t, j - 1)))

\* The chain that starts at the marker of device t: a header for n pbes,
\* then the directory pages, and the empty entry after the last of them.
ChainOfPages(t, n) ==
  /\ ChainEntry(t, 0) # 0
  /\ Slot(ChainEntry(t, 0)).kind = "hdr"
  /\ Slot(ChainEntry(t, 0)).sh.num_pbes = n
  /\ \A j \in 1 .. SUSPEND_PD_PAGES(n) :
       /\ ChainEntry(t, j) # 0
       /\ Slot(ChainEntry(t, j)).kind = "dir"
  /\ ChainEntry(t, SUSPEND_PD_PAGES(n) + 1) = 0

\* Directory page idx is the page SUSPEND_PD_PAGES(n) - idx links after
\* the marker of device t.
WrittenDirPage(t, n, idx) == Slot(ChainEntry(t, SUSPEND_PD_PAGES(n) - idx))

\* C27: once write_suspend_image has returned, the marker's entry is the
\* slot of the header, the header's link is the slot of the last directory
\* page, the link of directory page i is the slot of directory page i - 1
\* and the link of directory page 0 is the empty entry; and when
\* read_suspend_image has followed the chain, filling the directory from its
\* last page down to page 0, every page of the directory holds the page
\* that was written from the same index.
C27_ChainShapeAndReadOrder ==
  /\ (pc \in SavedPcs /\ root_swap # NO_ROOT_SWAP) =>
       /\ ChainOfPages(root_swap, nr_copy_pages)
       /\ \A idx \in 0 .. (SUSPEND_PD_PAGES(nr_copy_pages) - 1) :
            WrittenDirPage(root_swap, nr_copy_pages, idx) = memory[PfnOf(pagedir_nosave) + idx]
  /\ (pc = "relocate_pagedir") =>
       /\ ChainOfPages(resume_file, nr_copy_pages)
       /\ \A idx \in 0 .. (SUSPEND_PD_PAGES(nr_copy_pages) - 1) :
            memory[PfnOf(pagedir_nosave) + idx] = WrittenDirPage(resume_file, nr_copy_pages, idx)

\* The header and every directory page of the chain lie on device t.
ChainOnDevice(t, n) ==
  \A j \in 0 .. SUSPEND_PD_PAGES(n) : swp_type(ChainEntry(t, j)) = t

\* What holds of the read order whatever the devices: the writer's chain has
\* the shape above, and a chain that lies on the resume device is read back
\* page for page.
ReadOrderOnResumeDevice ==
  /\ (pc \in SavedPcs /\ root_swap # NO_ROOT_SWAP) =>
       /\ ChainOfPages(root_swap, nr_copy_pages)
       /\ \A idx \in 0 .. (SUSPEND_PD_PAGES(nr_copy_pages) - 1) :
            WrittenDirPage(root_swap, nr_copy_pages, idx) = memory[PfnOf(pagedir_nosave) + idx]
  /\ (pc = "relocate_pagedir" /\ ChainOnDevice(resume_file, nr_copy_pages)) =>
       /\ ChainOfPages(resume_file, nr_copy_pages)
       /\ \A idx \in 0 .. (SUSPEND_PD_PAGES(nr_copy_pages) - 1) :
            memory[PfnOf(pagedir_nosave) + idx] = WrittenDirPage(resume_file, nr_copy_pages, idx)

(***************************************************************************)
(* The directory on swap.                                                  *)
(***************************************************************************)
\* pbe k as the directory page `page' holds it.
PbeOnPage(page, k) == AsPbes(page)[(k % PbesPerPage) + 1]

\* The pbes p and q name the same frame, the same buffer and the same slot.
SamePbe(p, q) ==
  /\ p.orig_address = q.orig_address
  /\ p.address = q.address
  /\ p.swap_address = q.swap_address

\* The slot recorded in pbe p holds the content of p's buffer.
SlotHoldsBuffer(p) ==
  /\ p.swap_address # 0
  /\ Slot(p.swap_address) = memory[PfnOf(p.address)]

\* The directory reached from the marker holds, for every pbe, the slot its
\* buffer was written to, and no two pbes share a slot.
DirectoryOnDiskIsComplete ==
  (pc \in SavedPcs /\ root_swap # NO_ROOT_SWAP) =>
    /\ \A k \in PbeIndices :
         LET d == PbeOnPage(WrittenDirPage(root_swap, nr_copy_pages, k \div PbesPerPage), k)
         IN /\ SamePbe(d, Pbe(k))
            /\ SlotHoldsBuffer(d)
    /\ \A k, l \in PbeIndices : k # l => Pbe(k).swap_address # Pbe(l).swap_address

RelocatedAfterRejecting ==
  /\ pc = "relocate_loop"
  /\ pc' = "check_pagedir"
  /\ eaten_memory # <<>>

\* Every frame of the block at address a is on the free list n times after
\* the step.
BlockFreedTimes(a, n) ==
  \A f \in Block(PfnOf(a), pagedir_order) : TimesFree(f)' = n

\* C29: when relocate_pagedir returns 0 after rejecting one candidate block
\* or more, each rejected block and the block of the old directory has been
\* freed exactly once, and no block was read after it was freed.
C29_RejectedAndOldAreFreed ==
  [][RelocatedAfterRejecting =>
       /\ \A x \in 1 .. Len(eaten_memory) : BlockFreedTimes(eaten_memory[x], 1)
       /\ BlockFreedTimes(pagedir_nosave, 1)
       /\ ~ReadsFreed(FreeLoop(eaten_memory))]_vars

\* What the code does instead: the candidate rejected last (the head of the
\* chain) and the old directory stay allocated, every other rejected block
\* is freed once.
RelocateLeaksTwoBlocks ==
  [][RelocatedAfterRejecting =>
       /\ BlockFreedTimes(eaten_memory[1], 0)
       /\ BlockFreedTimes(pagedir_nosave, 0)
       /\ \A x \in 2 .. Len(eaten_memory) : BlockFreedTimes(eaten_memory[x], 1)
       /\ ReadsFreed(FreeLoop(eaten_memory)) <=> (Len(eaten_memory) >= 2)]_vars

(***************************************************************************)
(* relocate_pagedir and the content of the directory.                      *)
(***************************************************************************)
\* relocate_pagedir is running.
RelocatePcs == {"relocate_pagedir", "relocate_loop"}

\* relocate_pagedir has just returned 0.
Relocated == pc = "check_pagedir" /\ i = 0

\* The pbes reachable through pagedir_nosave are those of the directory on
\* the resume device.
DirectoryAsOnDisk ==
  \A k \in PbeIndices :
    SamePbe(Pbe(k), PbeOnPage(WrittenDirPage(resume_file, nr_copy_pages, k \div PbesPerPage), k))

\* C30: relocate_pagedir keeps the directory: no step of it changes the
\* orig_address, the address or the swap_address of any of the first
\* nr_copy_pages pbes reachable through pagedir_nosave, nor nr_copy_pages
\* or pagedir_order, whether the directory stays where it is or is copied to
\* a new block; so when it has returned 0 the pbes are those read from swap.
C30_RelocationPreservesDirectory ==
  /\ [][(pc \in RelocatePcs) =>
          /\ nr_copy_pages' = nr_copy_pages
          /\ pagedir_order' = pagedir_order
          /\ \A k \in PbeIndices :
               SamePbe(GetPbe(memory', pagedir_nosave', k), GetPbe(memory, pagedir_nosave, k))]_vars
  /\ [](((pc \in RelocatePcs \/ Relocated) /\ ChainOnDevice(resume_file, nr_copy_pages))
          => DirectoryAsOnDisk)

\* A directory of two pages has been copied to a new block after a
\* candidate was rejected, and holds the pbes read from swap.
C30_Witness ==
  /\ Relocated
  /\ eaten_memory # <<>>
  /\ SUSPEND_PD_PAGES(nr_copy_pages) >= 2
  /\ ChainOnDevice(resume_file, nr_copy_pages)
  /\ DirectoryAsOnDisk
  /\ \A k \in PbeIndices : Pbe(k).orig_address # 0 /\ Pbe(k).swap_address # 0

(***************************************************************************)
(* Interrupts during the save.                                             *)
(***************************************************************************)
\* suspend_prepare_image is running (counting, allocation, copying).
PreparePcs ==
  {"suspend_prepare_image", "create_suspend_pagedir", "create_buffers"}

\* write_suspend_image is running or has returned to suspend_save_image.
InWriteSuspendImage == pc \in WritePcs \cup {"write_done"}

\* C31: interrupts are enabled for the whole of write_suspend_image and only
\* then: suspend_save_image enables them before the first write to swap and
\* disables them before it returns, and no step of suspend_prepare_image
\* (counting pass, directory allocation, copying pass) changes the
\* interrupt state.
C31_InterruptsOnOnlyWhileWriting ==
  /\ [](InWriteSuspendImage => irq)
  /\ []((pc \in PreparePcs \cup {"suspend_save_image", "suspended"}) => ~irq)
  /\ [][(pc \in PreparePcs) => (irq' = irq)]_vars
  /\ [][(pc \in PreparePcs \cup {"suspend_save_image"} \cup WritePcs \cup {"write_done"}
          /\ disk' # disk) => (irq /\ irq')]_vars
  /\ [][(pc = "suspend_save_image") => irq']_vars
  /\ [][(pc = "write_done" /\ pc' = "suspended") => ~irq']_vars

\* suspend_save_image has returned after writing an image: swap has changed
\* and interrupts are off again.
C31_Witness ==
  /\ pc = "suspended"
  /\ ~irq
  /\ disk # Disk0(cfg)
  /\ nr_copy_pages >= 1

(***************************************************************************)
(* The ignored swap devices during the write.                              *)
(***************************************************************************)
\* The flags of the swap devices when suspend_save_image is entered.
FlagsAtEntry == SwapInfo0(cfg)

\* Device t is disabled: its flags are not those it had at entry, and it
\* is not writable, so get_swap_page passes it over.
Toggled(t) ==
  /\ swap_info[t] # FlagsAtEntry[t]
  /\ ~WriteOk(swap_info[t])

\* C32: the ignored swap devices are disabled for the duration of the write
\* only: while write_suspend_image runs every device classified
\* SWAPFILE_IGNORED has its flags toggled and every device classified
\* SWAPFILE_SUSPEND or SWAPFILE_UNUSED has the flags it had at entry, and
\* when suspend_save_image has returned every device has the flags it had at
\* entry.
C32_IgnoredDevicesLockedWhileWriting ==
  /\ (pc \in PreparePcs \cup {"suspend_save_image", "suspended"}) =>
       swap_info = FlagsAtEntry
  /\ InWriteSuspendImage =>
       \A t \in SwapTypes :
         IF swapfile_used[t] = SWAPFILE_IGNORED
           THEN Toggled(t)
           ELSE swap_info[t] = FlagsAtEntry[t]

\* suspend_save_image has returned after writing an image past a device it
\* ignored.
C32_Witness ==
  /\ pc = "suspended"
  /\ nr_copy_pages >= 1
  /\ \E t \in SwapTypes : swapfile_used[t] = SWAPFILE_IGNORED /\ WriteOk(swap_info[t])
  /\ swap_info = FlagsAtEntry

(***************************************************************************)
(* mark_swapfiles on every marker.                                         *)
(***************************************************************************)
\* The signature in the first block of device t, and its first n bytes.
MarkerMagic(d, t) == AsMagic(d[t][0])
MagicBegins(magic, sig, n) == \A j \in 1 .. n : magic[j] = sig[j]

\* The bytes of a committed signature that the link does not cover.
SigLen == MagicLen - SwpEntryBytes

\* mark_swapfiles runs in this step and gets the page it asks for.
MarkRuns(at) ==
  /\ pc = at
  /\ root_swap # NO_ROOT_SWAP
  /\ ~(pc' = "panic" /\ why' = "Out of memory in mark_swapfiles")

\* Suspend mode: "SWAP-SPACE" becomes an S1 signature, "SWAPSPACE2" an S2
\* signature, and any other marker is a panic that leaves the device alone.
SuspendModeMaps ==
  MarkRuns("mark_swapfiles") =>
    LET before == MarkerMagic(disk, root_swap)
        after == MarkerMagic(disk', root_swap)
    IN IF before = SWAP_SPACE
         THEN pc' = "write_done" /\ MagicBegins(after, <<83, 49, 83, 85, 83, 80>>, SigLen)
       ELSE IF before = SWAPSPACE2
         THEN pc' = "write_done" /\ MagicBegins(after, <<83, 50, 83, 85, 83, 80>>, SigLen)
       ELSE pc' = "panic" /\ why' = "Swapspace is not swapspace" /\ disk' = disk

\* Resume mode: a signature that begins with "S1" becomes "SWAP-SPACE", one
\* that begins with "S2" becomes "SWAPSPACE2", any other stays as it is.
ResumeModeMaps ==
  MarkRuns("swsusp_free") =>
    LET before == MarkerMagic(disk, root_swap)
        after == MarkerMagic(disk', root_swap)
    IN /\ pc' = "resumed"
       /\ IF MagicBegins(before, <<83, 49>>, 2) THEN after = SWAP_SPACE
          ELSE IF MagicBegins(before, <<83, 50>>, 2) THEN after = SWAPSPACE2
          ELSE disk' = disk

\* Without a suspend device mark_swapfiles reads nothing, writes nothing and
\* takes no page.
NoDeviceNoMark ==
  (pc \in {"mark_swapfiles", "swsusp_free"} /\ root_swap = NO_ROOT_SWAP) =>
    /\ disk' = disk
    /\ memory' = memory
    /\ pc' \in {"write_done", "resumed"}

\* The markers a commit leaves are S1SUSP or S2SUSP followed by the entry
\* point, and a revert of each of them is part of the model.
CommittedIsRevertible ==
  (pc = "write_done" /\ root_swap # NO_ROOT_SWAP) =>
    /\ disk[root_swap][0] \in MarkerPages
    /\ MarkerMagic(disk, root_swap) \notin {SWAP_SPACE, SWAPSPACE2}

\* C33: mark_swapfiles in suspend mode turns "SWAP-SPACE" into an S1
\* signature and "SWAPSPACE2" into an S2 signature and panics on any other
\* marker, a committed one included; in resume mode it turns S1 back into
\* "SWAP-SPACE" and S2 back into "SWAPSPACE2" and leaves any other signature
\* unchanged, so that a commit followed by a revert restores the signature;
\* and it does nothing when no suspend device is selected.
C33_CommitThenRevert ==
  /\ [][SuspendModeMaps]_vars
  /\ [][ResumeModeMaps]_vars
  /\ [][NoDeviceNoMark]_vars
  /\ []CommittedIsRevertible

\* A commit has turned "SWAPSPACE2" into an S2 signature followed by a
\* two-byte entry point; the revert of that marker is one of the cases.
C33_Witness ==
  /\ pc = "write_done"
  /\ root_swap = 0
  /\ MagicBegins(MarkerMagic(disk, 0), <<83, 50, 83, 85, 83, 80>>, SigLen)
  /\ LinkNext(disk[0][0]) = 257
  /\ disk[0][0] \in MarkerPages

(***************************************************************************)
(* The committed marker as read_suspend_image sees it.                     *)
(***************************************************************************)
\* read_suspend_image has taken the marker of the resume device for a
\* committed image and is about to read the header at block next.
MarkerAccepted == pc = "read_header"

\* The marker of the resume device is S1SUSP or S2SUSP, whichever the
\* commit made of the signature that was there, followed by an entry point.
VariantAsWritten(plain) ==
  LET magic == MarkerMagic(disk, resume_file)
  IN IF plain = SWAP_SPACE THEN MagicBegins(magic, <<83, 49, 83, 85, 83, 80>>, SigLen)
     ELSE IF plain = SWAPSPACE2 THEN MagicBegins(magic, <<83, 50, 83, 85, 83, 80>>, SigLen)
     ELSE FALSE

\* C34: a marker that was committed is taken by read_suspend_image for a
\* committed image, never for plain swap or an unknown signature, in the
\* variant that was written, and the entry point read_suspend_image
\* recovers from it is the slot of the header that the commit stored,
\* although the entry point lies in the last bytes of the signature.
C34_EntryPointSurvivesSignature ==
  /\ (pc = "resume_failed"
        /\ why \in {"This is normal swap space", "Unable to find suspended-data signature"}) =>
       ~(\/ MagicBegins(MarkerMagic(disk, resume_file), <<83, 49, 83, 85, 83, 80>>, SigLen)
         \/ MagicBegins(MarkerMagic(disk, resume_file), <<83, 50, 83, 85, 83, 80>>, SigLen))
  /\ MarkerAccepted =>
       /\ VariantAsWritten(InitMagic(resume_file))
       /\ swp_entry(resume_file, next) = LinkNext(disk[resume_file][0])
       /\ disk[resume_file][next].kind = "hdr"

\* What holds whatever the devices: the commit stores the entry point it
\* was given next to the signature, the marker is then neither plain swap
\* nor unknown to read_suspend_image, its variant is the one written, and
\* when the header lies on the resume device the block read_suspend_image
\* goes on to is the header's slot.
EntryPointOnResumeDevice ==
  /\ (pc = "write_done" /\ root_swap # NO_ROOT_SWAP) =>
       /\ LinkNext(disk[root_swap][0]) = prev
       /\ ~IsPlainSwap(MarkerMagic(disk, root_swap))
       /\ \/ MagicBegins(MarkerMagic(disk, root_swap), <<83, 49>>, 2)
          \/ MagicBegins(MarkerMagic(disk, root_swap), <<83, 50>>, 2)
  /\ (MarkerAccepted /\ swp_type(LinkNext(disk[resume_file][0])) = resume_file) =>
       swp_entry(resume_file, next) = LinkNext(disk[resume_file][0])
  /\ (MarkerAccepted /\ cfg.dev.active = {resume_file}) =>
       /\ VariantAsWritten(InitMagic(resume_file))
       /\ disk[resume_file][next].kind = "hdr"

(***************************************************************************)
(* The retry loops of relocate_pagedir and check_pagedir.                  *)
(***************************************************************************)
\* The blocks relocate_pagedir has rejected are not free.
RejectedStayAllocated ==
  \A x \in 1 .. Len(eaten_memory) :
    Block(PfnOf(eaten_memory[x]), pagedir_order) \cap Range(free_list) = {}

\* A round of a retry loop that is followed by another takes its candidate
\* from the free pages and does not give it back.
RetryConsumes(at) ==
  (pc = at /\ pc' = at /\ memory' # memory) =>
    /\ Len(free_list') < Len(free_list)
    /\ Range(free_list') \subseteq Range(free_list)

\* relocate_pagedir leaves its loop with a block that collides with no
\* orig_address, or with -ENOMEM.
RelocateLoopResult ==
  (pc = "relocate_loop" /\ pc' # "relocate_loop") =>
    \/ /\ pc' \in {"check_pagedir", "oops"}
       /\ \A k \in PbeIndices :
            PfnOf(GetPbe(memory', pagedir_nosave', k).orig_address)
              \notin Block(PfnOf(pagedir_nosave'), pagedir_order)
    \/ pc' = "resume_failed" /\ error' = ENOMEM

\* check_pagedir leaves its loop with a buffer for every pbe that is no
\* pbe's orig_address, or with -ENOMEM.
CheckLoopResult ==
  (pc = "check_pagedir" /\ pc' # "check_pagedir") =>
    \/ /\ pc' = "read_data"
       /\ \A k, l \in PbeIndices : Pbe(k).address # 0 /\ Pbe(k).address # Pbe(l).orig_address
    \/ pc' = "resume_failed" /\ error' = ENOMEM

\* C35: the retry loops of relocate_pagedir and check_pagedir terminate:
\* with finitely many pages each of them ends, with a collision-free result
\* or with -ENOMEM once allocation fails, because a rejected candidate stays
\* allocated while the loop runs and is not handed out again.
C35_RetryLoopsTerminate ==
  /\ (pc = "relocate_loop") ~> (pc # "relocate_loop")
  /\ (pc = "check_pagedir") ~> (pc # "check_pagedir")
  /\ [][RetryConsumes("relocate_loop")]_vars
  /\ [][RetryConsumes("check_pagedir")]_vars
  /\ [][RelocateLoopResult]_vars
  /\ [][CheckLoopResult]_vars
  /\ []((pc = "relocate_loop") => RejectedStayAllocated)

\* Both loops have ended, check_pagedir after a rejection: it left a zeroed
\* page behind that is no pbe's buffer and is not free.
C35_Witness ==
  /\ pc = "read_data"
  /\ \E f \in Frames \ Range(free_list) :
       /\ memory[f] = ZeroPage
       /\ \A k \in PbeIndices : Pbe(k).address # ADDRESS(f)
       /\ \A x \in 1 .. Len(eaten_memory) : f \notin Block(PfnOf(eaten_memory[x]), pagedir_order)
       /\ f \notin PageReserved

(***************************************************************************)
(* The error returns of read_suspend_image after the directory was         *)
(* allocated.                                                              *)
(***************************************************************************)
\* read_suspend_image returns an error from the directory loop, from
\* relocate_pagedir, from check_pagedir or from the data loop, and swsusp_read
\* returns it.
FailsAfterAlloc ==
  /\ pc \in {"read_pagedir", "relocate_loop", "check_pagedir", "read_data"}
  /\ pc' = "resume_failed"

\* The frames that were free when the kernel booted.
FreeAtBoot == Frames \ PageReserved

\* C36: on every error return of read_suspend_image taken after the
\* directory was allocated, the directory block, every rejected relocation
\* candidate and every page obtained in check_pagedir has been freed when
\* swsusp_read returns.
C36_FailedResumeReleases ==
  [][FailsAfterAlloc =>
       /\ Block(PfnOf(pagedir_nosave'), pagedir_order') \subseteq Range(free_list')
       /\ \A x \in 1 .. Len(eaten_memory') :
            Block(PfnOf(eaten_memory'[x]), pagedir_order') \subseteq Range(free_list')
       /\ Range(free_list') = FreeAtBoot]_vars

\* What swsusp_read frees on these returns is its own page and nothing else:
\* the directory block stays allocated.
FailedResumeFreesCurOnly ==
  [][FailsAfterAlloc =>
       /\ free_list' = <<PfnOf(cur)>> \o free_list
       /\ Block(PfnOf(pagedir_nosave'), pagedir_order') \cap Range(free_list') = {}]_vars

(***************************************************************************)
(* The assertions of fill_suspend_header and swsusp_resume.                *)
(***************************************************************************)
\* The slots write_suspend_image has taken that hold a page of data.
DataSlotsWritten ==
  {e \in {swp_entry(t, o) : t \in SwapTypes, o \in Offsets \ {0}} :
     /\ swp_offset(e) \in SwapFree0(cfg)[swp_type(e)]
     /\ swp_offset(e) \notin swap_free[swp_type(e)]
     /\ Slot(e).kind \notin {"dir", "hdr"}}

\* The header fill_suspend_header has filled, in the buffer of
\* write_suspend_image.
FilledHeader == memory[PfnOf(buffer)]

\* Neither BUG_ON of swsusp_resume nor that of fill_suspend_header fires.
AssertionsPass ==
  ~(pc = "BUG" /\ why \in {"swsusp_resume", "pagedir_save != pagedir_nosave"})

\* C37: when swsusp_resume runs after the image was loaded and restored,
\* nr_copy_pages equals nr_copy_pages_check and pagedir_order equals
\* pagedir_order_check; when fill_suspend_header runs, pagedir_save equals
\* pagedir_nosave, and the num_pbes of the header is the number of data slots
\* written.
C37_AssertionsHold ==
  /\ (pc = "swsusp_resume") =>
       /\ nr_copy_pages = nr_copy_pages_check
       /\ pagedir_order = pagedir_order_check
  /\ (pc \in WritePcs) => pagedir_save = pagedir_nosave
  /\ (pc = "mark_swapfiles") =>
       /\ FilledHeader.kind = "hdr"
       /\ FilledHeader.sh.num_pbes = Cardinality(DataSlotsWritten)
       /\ FilledHeader.sh.num_pbes = nr_copy_pages
  /\ AssertionsPass

\* swsusp_resume is about to run on a restored image of two directory
\* pages, which fill_suspend_header described before the machine went down.
C37_Witness ==
  /\ pc = "swsusp_resume"
  /\ nr_copy_pages_check > PbesPerPage
  /\ pagedir_order_check >= 1
  /\ \E o \in Offsets :
       /\ disk[resume_file][o].kind = "hdr"
       /\ disk[resume_file][o].sh.num_pbes = nr_copy_pages_check

====
